---------------------------- MODULE Spec2Model ----------------------------
(***************************************************************************)
(* A model of yumy's diagnostic body layout: the line index of a Source   *)
(* (src/src/source.rs, src/src/text.rs), the sweep of DescriptorBuilder    *)
(* (src/src/diagnostic/body/builder.rs) and the BodyWriter that renders    *)
(* the resulting chunks (src/src/diagnostic/body/writer.rs).               *)
(* The single-pass BodyWriter of src/src/diagnostic/body.rs is modelled    *)
(* apart from them, under BodySpec.                                        *)
(*                                                                         *)
(* Text is a sequence of one-character strings.  Byte offsets are 0-based  *)
(* as in the code, so byte b of a text s is s[b + 1].                      *)
(***************************************************************************)
EXTENDS Integers, Sequences, FiniteSets, TLC

VARIABLES
    src,            \* Source.src: the text of the source
    lines,          \* Source.lines: the lines of the text
    labels,         \* Diagnostic.labels, in the order they were added
    pc,             \* position of the render call / of the query
    builder,        \* the DescriptorBuilder
    writer,         \* the BodyWriter (descriptor, slots, counters)
    chunks,         \* BodyWriter::write: the chunks the loop has not reached
    chunk,          \* BodyWriter::write: the chunk of the current iteration
    out,            \* the rows written to the sink so far
    panic_msg,      \* the message of the panic that ended the call, or ""
    call,           \* the last call made: a query on the Source or a render
    ret,            \* what the query returned
    prior,          \* what an earlier render of the same diagnostic produced
    sink,           \* the io::Write the render writes to
    other           \* a second render call over the same Source, while the
                    \* call above is the one that runs

vars == <<src, lines, labels, pc, builder, writer, chunks, chunk, out, panic_msg,
          call, ret, prior, sink, other>>

---------------------------------------------------------------------------
(* Bounds of the model. *)

\* longest source text of a render
MaxLen == 4
\* most labels of one diagnostic
MaxLabels == 2
\* longest source text of a query on the Source alone
MaxQueryLen == 5
MaxTextLen == 6

\* longest source text of a render of multi-line labels only
MaxOver == 2
MaxSinkLen == 3
MaxPairLen == 3
MaxPairLabels == 1
MaxLongLen == 10
MaxWrites == 8
MaxLaneLen == 5
\* most labels of such a render
MaxLaneLabels == 3

\* the characters of a render's source: a visible character, a tab
\* (whitespace whose width is not its byte length) and the line terminator
Alphabet == {"a", "\t", "\n"}
\* the characters of a queried source: the space as well
QueryAlphabet == {"a", " ", "\t", "\n"}
\* "+" stands for a combining mark, which joins the character before it
TextAlphabet == {"a", " ", "\t", "\n", "\r", "+"}

\* the characters of the source of a render of multi-line labels: the
\* lanes do not depend on the indentation
LaneAlphabet == {"a", "\n"}

\* usize::MAX, the initial indent_trim (the largest integer of the checker
\* stands for it)
USIZE_MAX == 2147483647
\* u32::MAX, likewise
U32_MAX == 2147483647

---------------------------------------------------------------------------
(* Option<T> *)

None == [some |-> FALSE]
Some(x) == [some |-> TRUE, val |-> x]

Min(a, b) == IF a <= b THEN a ELSE b
Max(a, b) == IF a >= b THEN a ELSE b

\* all texts over an alphabet, up to a length
Texts(alphabet, n) == UNION {[1..k -> alphabet] : k \in 0..n}

---------------------------------------------------------------------------
(* src/src/text.rs *)

\* grapheme_width: a tab is 4 columns wide; the other characters of the
\* alphabets are one column wide (a line feed or carriage return, a control character,
\* has no width)
grapheme_width(g) ==
    IF g = "\t" THEN 4
    ELSE IF g = "\n" \/ g = "\r" THEN 0
    ELSE IF g = "+" THEN 0
    ELSE 1

RECURSIVE dislay_width(_)
dislay_width(s) ==
    IF s = <<>> THEN 0
    ELSE grapheme_width(Head(s)) + dislay_width(Tail(s))

\* dedent that goes character by character
RECURSIVE dedent_chars_from(_, _, _)
dedent_chars_from(s, index, width) ==
    IF index >= Len(s)
    THEN [offset |-> Len(s), width |-> dislay_width(s), text |-> <<>>]
    ELSE IF s[index + 1] = " " THEN dedent_chars_from(s, index + 1, width + 1)
    ELSE IF s[index + 1] = "\t" THEN dedent_chars_from(s, index + 1, width + 4)
    ELSE [offset |-> index, width |-> width,
          text |-> SubSeq(s, index + 1, Len(s))]

dedent_chars(s) == dedent_chars_from(s, 0, 0)

\* the number of combining marks (written "+") from offset i on
RECURSIVE marks_from(_, _)
marks_from(s, i) ==
    IF i < Len(s) /\ s[i + 1] = "+" THEN 1 + marks_from(s, i + 1) ELSE 0

\* grapheme_indices(true): the end of the grapheme that starts at index.  A
\* carriage return and a line feed are one grapheme, a control character
\* (a tab too) is a grapheme of its own, any other character takes the
\* combining marks behind it
grapheme_end(s, index) ==
    IF s[index + 1] = "\r" /\ index + 2 <= Len(s) /\ s[index + 2] = "\n"
    THEN index + 2
    ELSE IF s[index + 1] \in {"\r", "\n", "\t"} THEN index + 1
    ELSE index + 1 + marks_from(s, index + 1)

\* the loop of dedent: index is the byte offset of the next grapheme, width
\* the width of the whitespace passed so far
RECURSIVE dedent_from(_, _, _)
dedent_from(s, index, width) ==
    IF index >= Len(s)
    THEN [offset |-> Len(s), width |-> dislay_width(s), text |-> <<>>]
    ELSE LET grapheme == SubSeq(s, index + 1, grapheme_end(s, index))
         IN  IF grapheme = <<" ">>
             THEN dedent_from(s, grapheme_end(s, index), width + 1)
             ELSE IF grapheme = <<"\t">>
             THEN dedent_from(s, grapheme_end(s, index), width + 4)
             ELSE [offset |-> index, width |-> width,
                   text |-> SubSeq(s, index + 1, Len(s))]

dedent(s) == dedent_from(s, 0, 0)

---------------------------------------------------------------------------
(* src/src/source.rs *)

SourceSpan(start, end) == [start |-> start, end |-> end]

\* SourceSpan::contains
contains(span, value) == span.start <= value /\ value < span.end

\* the offset of the first line terminator at or after offset, or the
\* length of the text
RECURSIVE line_end(_, _)
line_end(s, offset) ==
    IF offset >= Len(s) \/ s[offset + 1] = "\n" THEN offset
    ELSE line_end(s, offset + 1)

\* the end of the line that starts at offset and runs up to the line feed
\* at lf (or to the end of the text, lf = Len(s)): a carriage return just
\* before the line feed belongs to the terminator
strip_cr(s, offset, lf) ==
    IF lf < Len(s) /\ lf > offset /\ s[lf] = "\r" THEN lf - 1 ELSE lf

\* Source::lines_of with lines that keep their terminator
RECURSIVE lines_from_inclusive(_, _, _)
lines_from_inclusive(s, offset, index) ==
    IF offset >= Len(s) THEN <<>>
    ELSE LET end == Min(line_end(s, offset) + 1, Len(s))
             line == SubSeq(s, offset + 1, end)
             d == dedent(line)
         IN  <<[index |-> index,
                indent_size |-> d.width,
                full_span |-> SourceSpan(offset, end),
                dedented_span |-> SourceSpan(offset + d.offset, end),
                text |-> d.text]>>
             \o lines_from_inclusive(s, end, index + 1)

lines_of_inclusive(s) == lines_from_inclusive(s, 0, 0)

\* str::lines, enumerated and mapped to SourceLine: a line ends before its
\* terminator, a line feed or a carriage return and a line feed, and no
\* line follows the last terminator of the text
RECURSIVE lines_from(_, _, _)
lines_from(s, offset, index) ==
    IF offset >= Len(s) THEN <<>>
    ELSE LET lf == line_end(s, offset)
             end == strip_cr(s, offset, lf)
             line == SubSeq(s, offset + 1, end)
             d == dedent(line)
         IN  <<[index |-> index,
                indent_size |-> d.width,
                full_span |-> SourceSpan(offset, end),
                dedented_span |-> SourceSpan(offset + d.offset, end),
                text |-> d.text]>>
             \o lines_from(s, lf + 1, index + 1)

lines_of(s) == lines_from(s, 0, 0)

\* slice::partition_point over the line starts: the number of lines before
\* the first one that starts after index
partition_point(ls, index) ==
    Cardinality({i \in 1..Len(ls) :
                    \A j \in 1..i : ls[j].full_span.start <= index})

\* line_index_at with a partition over the lines that start before index
line_index_at_strict(index) ==
    IF index > Len(src) THEN None
    ELSE LET p == Cardinality({i \in 1..Len(lines) :
                    \A j \in 1..i : lines[j].full_span.start < index})
         IN  IF p = 0 THEN None ELSE Some(p - 1)

\* line_index_at without the early return for an index behind the source
line_index_at_unchecked(index) ==
    LET p == partition_point(lines, index)
    IN  IF p = 0 THEN None ELSE Some(p - 1)

line_index_at(index) ==
    IF index > Len(src) THEN None
    ELSE LET p == partition_point(lines, index)
         IN  IF p = 0 THEN None ELSE Some(p - 1)

\* line_range_of_span that looks up the exclusive end of the span
line_range_of_span_end(span) ==
    LET start == line_index_at(span.start)
    IN  IF ~start.some THEN None
        ELSE LET end == line_index_at(span.end)
             IN  IF ~end.some THEN None
                 ELSE Some([start |-> start.val, end |-> end.val + 1])

\* line_range_of_span without the max with the start of the span
line_range_of_span_nomax(span) ==
    LET start == line_index_at(span.start)
    IN  IF ~start.some THEN None
        ELSE LET end == line_index_at(Max(span.end - 1, 0))
             IN  IF ~end.some THEN None
                 ELSE Some([start |-> start.val, end |-> end.val + 1])

line_range_of_span(span) ==
    LET start == line_index_at(span.start)
    IN  IF ~start.some THEN None
        ELSE LET end == line_index_at(Max(Max(span.end - 1, 0), span.start))
             IN  IF ~end.some THEN None
                 ELSE Some([start |-> start.val, end |-> end.val + 1])

\* SourceSpan::new without the assertion
SourceSpan_new_unasserted(start, end) ==
    IF start = U32_MAX
    THEN [panic |-> "Start is non-max", span |-> None]
    ELSE [panic |-> "", span |-> Some(SourceSpan(start, end))]

\* SourceSpan::new: the assertion, then the expect on NonMaxU32::new
SourceSpan_new(start, end) ==
    IF ~(end >= start)
    THEN [panic |-> "assertion failed: end >= start", span |-> None]
    ELSE IF start = U32_MAX
    THEN [panic |-> "Start is non-max", span |-> None]
    ELSE [panic |-> "", span |-> Some(SourceSpan(start, end))]

\* SourceSpan::len: the u32 subtraction, which wraps around below 0 (or
\* panics, in a build with overflow checks)
SourceSpan_len(span) ==
    IF span.end < span.start
    THEN [overflow |-> TRUE, val |-> U32_MAX - (span.start - span.end) + 1]
    ELSE [overflow |-> FALSE, val |-> span.end - span.start]

\* the spans SourceSpan::new accepts with both ends up to limit
Spans(limit) ==
    {SourceSpan(s, e) : <<s, e>> \in {p \in (0..limit) \X (0..limit) : p[1] <= p[2]}}

---------------------------------------------------------------------------
(* src/src/diagnostic.rs: Label *)

\* a label: its message is modelled by its position in Diagnostic.labels
Label(span, message) == [message |-> message, span |-> span]

\* Label::line_range: the expect on line_range_of_span
line_range(label) == line_range_of_span(label.span)

\* is_singleline that compares the lines of the two ends of the span
is_singleline_ends(label) ==
    line_index_at(label.span.start) = line_index_at(label.span.end)

\* Label::is_singleline, where line_range did not panic
is_singleline(label) ==
    LET r == line_range(label).val IN r.start + 1 = r.end

---------------------------------------------------------------------------
(* src/src/diagnostic/body/builder.rs *)

Last(s) == s[Len(s)]
Front(s) == SubSeq(s, 1, Len(s) - 1)

\* one insertion of the stable sort by Reverse(span.start): the label goes
\* behind every label whose start is not smaller than its own
insert_by_reverse_start(sorted, label) ==
    LET n == Cardinality({i \in 1..Len(sorted) :
                             sorted[i].span.start >= label.span.start})
    IN  SubSeq(sorted, 1, n) \o <<label>> \o SubSeq(sorted, n + 1, Len(sorted))

\* sort_by_key that sorts by span.start, ascending
RECURSIVE sort_by_start(_)
sort_by_start(ls) ==
    IF ls = <<>> THEN <<>>
    ELSE LET rest == sort_by_start(SubSeq(ls, 1, Len(ls) - 1))
             label == ls[Len(ls)]
             n == Cardinality({i \in 1..Len(rest) :
                                  rest[i].span.start <= label.span.start})
         IN  SubSeq(rest, 1, n) \o <<label>> \o SubSeq(rest, n + 1, Len(rest))

\* labels.sort_by_key(|label| Reverse(label.span.start()))
RECURSIVE sort_by_reverse_start(_)
sort_by_reverse_start(ls) ==
    IF ls = <<>> THEN <<>>
    ELSE insert_by_reverse_start(sort_by_reverse_start(Front(ls)), Last(ls))

\* DescriptorBuilder::new with one id counter for all render calls
DescriptorBuilder_new_shared(ls) ==
    [labels |-> sort_by_reverse_start(ls),
     active_labels |-> <<>>,
     multiline_id |-> other.builder.multiline_id,
     current_line |-> 0,
     indent_trim |-> USIZE_MAX,
     result |-> <<>>]

\* DescriptorBuilder::new that goes on counting the ids where the last
\* builder stopped
DescriptorBuilder_new_resume(ls) ==
    [labels |-> sort_by_reverse_start(ls),
     active_labels |-> <<>>,
     multiline_id |-> builder.multiline_id,
     current_line |-> 0,
     indent_trim |-> USIZE_MAX,
     result |-> <<>>]

\* DescriptorBuilder::new
DescriptorBuilder_new(ls) ==
    [labels |-> sort_by_reverse_start(ls),
     active_labels |-> <<>>,
     multiline_id |-> 0,
     current_line |-> 0,
     indent_trim |-> USIZE_MAX,
     result |-> <<>>]

\* the loop of emit_labels_in_current: b is the builder, single and multi
\* the two vectors collected so far
RECURSIVE emit_labels_loop(_, _, _)
emit_labels_loop(b, single, multi) ==
    IF b.labels = <<>>
    THEN [builder |-> b, singleline |-> single, multiline |-> multi, panic |-> ""]
    ELSE LET label == Last(b.labels)
             popped == [b EXCEPT !.labels = Front(b.labels)]
             label_start_line == line_index_at(label.span.start)
         IN  IF ~label_start_line.some
             THEN [builder |-> popped, singleline |-> single,
                   multiline |-> multi, panic |-> "valid label"]
             ELSE IF label_start_line.val = b.current_line
             THEN IF ~line_range(label).some
                  THEN [builder |-> popped, singleline |-> single,
                        multiline |-> multi,
                        panic |-> "label should have span in range"]
                  ELSE IF is_singleline(label)
                  THEN emit_labels_loop(popped, Append(single, label), multi)
                  ELSE emit_labels_loop(
                          [popped EXCEPT
                              !.active_labels =
                                  Append(@, <<b.multiline_id, label.span>>),
                              !.multiline_id = @ + 1],
                          single, Append(multi, label))
             \* put the label back
             ELSE [builder |-> b, singleline |-> single, multiline |-> multi,
                   panic |-> ""]

emit_labels_in_current(b) == emit_labels_loop(b, <<>>, <<>>)

\* finished_in_current that looks at the line of the start of the span
finished_in_current_start(b, active) ==
    line_index_at(active[2].start).val = b.current_line

\* whether an active label finishes in the current line
finished_in_current(b, active) ==
    line_index_at(active[2].end).val = b.current_line

\* finish_labels_in_current: retain the active labels that do not finish
finish_labels_in_current(b) ==
    IF \E i \in 1..Len(b.active_labels) :
          ~line_index_at(b.active_labels[i][2].end).some
    THEN [builder |-> b, finished |-> <<>>, panic |-> "valid label"]
    ELSE [builder |-> [b EXCEPT !.active_labels =
                         SelectSeq(@, LAMBDA a : ~finished_in_current(b, a))],
          finished |-> LET fin == SelectSeq(b.active_labels,
                                     LAMBDA a : finished_in_current(b, a))
                       IN  [i \in 1..Len(fin) |-> fin[i][1]],
          panic |-> ""]

\* next_line that stays on the current line while a label is active
next_line_stay(b) ==
    IF b.active_labels = <<>>
    THEN line_index_at(Last(b.labels).span.start)
    ELSE Some(b.current_line)

\* next_line that goes two lines on while a label is active
next_line_skip(b) ==
    IF b.active_labels = <<>>
    THEN line_index_at(b.labels[Len(b.labels)].span.start)
    ELSE Some(b.current_line + 2)

\* the line the sweep goes to next
next_line(b) ==
    IF b.active_labels = <<>>
    THEN line_index_at(Last(b.labels).span.start)
    ELSE Some(b.current_line + 1)

\* fold_indent_trim that considers the empty lines too
fold_indent_trim_all(indent_trim, line) == Min(indent_trim, line.indent_size)

\* fold_indent_trim that keeps the indentation of the first line it sees
fold_indent_trim_first(indent_trim, line) ==
    IF line.text # <<>> /\ indent_trim = USIZE_MAX THEN line.indent_size
    ELSE indent_trim

\* the running minimum of the indentation: an empty line is not considered
fold_indent_trim(indent_trim, line) ==
    IF line.text # <<>> THEN Min(indent_trim, line.indent_size)
    ELSE indent_trim

\* one iteration of the loop of emit_events
emit_events_body(b) ==
    LET target == next_line(b)
    IN  IF ~target.some
        THEN [builder |-> b, panic |-> "label span is valid"]
        ELSE IF target.val >= Len(lines)
        THEN [builder |-> [b EXCEPT !.current_line = target.val],
              panic |-> "valid line"]
        ELSE
        LET line == lines[target.val + 1]
            b1 == [b EXCEPT !.current_line = target.val,
                            !.indent_trim = fold_indent_trim(@, line)]
            emitted == emit_labels_in_current(b1)
        IN  IF emitted.panic # ""
            THEN [builder |-> emitted.builder, panic |-> emitted.panic]
            ELSE
            LET finishing == finish_labels_in_current(emitted.builder)
            IN  IF finishing.panic # ""
                THEN [builder |-> finishing.builder, panic |-> finishing.panic]
                ELSE [builder |->
                        [finishing.builder EXCEPT !.result = Append(@,
                            [line |-> line,
                             singleline_labels |-> emitted.singleline,
                             starting_multiline_labels |-> emitted.multiline,
                             finishing_multiline_labels |-> finishing.finished])],
                      panic |-> ""]

\* u32/usize::ilog10 of a positive number
RECURSIVE ilog10(_)
ilog10(n) == IF n < 10 THEN 0 ELSE 1 + ilog10(n \div 10)

\* calculate_line_number_width from the index of the last line
calculate_line_number_width_index(b) ==
    IF b.result = <<>> THEN 0
    ELSE ilog10(Last(b.result).line.index) + 1

calculate_line_number_width(b) ==
    IF b.result = <<>> THEN 0
    ELSE ilog10(Last(b.result).line.index + 1) + 1

\* the loop of calculate_maximum_parallel_labels over the chunks from i on
RECURSIVE maximum_parallel_from(_, _, _, _)
maximum_parallel_from(result, i, count, max) ==
    IF i > Len(result) THEN max
    ELSE LET started == count + Len(result[i].starting_multiline_labels)
         IN  maximum_parallel_from(result, i + 1,
                started - Len(result[i].finishing_multiline_labels),
                Max(max, started))

\* the loop of calculate_maximum_parallel_labels with the finishing labels
\* taken off before the maximum is taken
RECURSIVE maximum_parallel_early_from(_, _, _, _)
maximum_parallel_early_from(result, i, count, max) ==
    IF i > Len(result) THEN max
    ELSE LET left == count + Len(result[i].starting_multiline_labels)
                        - Len(result[i].finishing_multiline_labels)
         IN  maximum_parallel_early_from(result, i + 1, left, Max(max, left))

calculate_maximum_parallel_labels_early(b) ==
    maximum_parallel_early_from(b.result, 1, 0, 0)

\* calculate_maximum_parallel_labels that counts every started label
RECURSIVE calculate_maximum_parallel_labels_total(_)
calculate_maximum_parallel_labels_total(b) ==
    IF b.result = <<>> THEN 0
    ELSE calculate_maximum_parallel_labels_total(
             [b EXCEPT !.result = SubSeq(@, 1, Len(@) - 1)])
         + Len(b.result[Len(b.result)].starting_multiline_labels)

calculate_maximum_parallel_labels(b) ==
    maximum_parallel_from(b.result, 1, 0, 0)

\* build that hands over the chunks last to first
build_backwards(b) ==
    [chunks |-> [i \in 1..Len(b.result) |-> b.result[Len(b.result) + 1 - i]],
     indent_trim |-> b.indent_trim,
     line_number_width |-> calculate_line_number_width(b),
     maximum_parallel_labels |-> calculate_maximum_parallel_labels(b)]

\* DescriptorBuilder::build, after emit_events
build(b) ==
    [chunks |-> b.result,
     indent_trim |-> b.indent_trim,
     line_number_width |-> calculate_line_number_width(b),
     maximum_parallel_labels |-> calculate_maximum_parallel_labels(b)]

---------------------------------------------------------------------------
(* src/src/diagnostic/body/writer.rs *)

\* BodyWriter::new: one empty slot per parallel label
BodyWriter_new(descriptor) ==
    [descriptor |-> descriptor,
     slots |-> [i \in 1..descriptor.maximum_parallel_labels |-> None],
     multiline_id |-> 0,
     line_number_width |-> descriptor.line_number_width,
     current_indent_level |-> 0]

\* a row of the output: the left column (the 1-based line number, 0 for the
\* separator), one glyph per slot, then the text area
Row(kind, number, lanes, indent, text, before, underline, message) ==
    [kind |-> kind, number |-> number, lanes |-> lanes, indent |-> indent,
     text |-> text, before |-> before, underline |-> underline,
     message |-> message]

\* emit_left_column: what is printed in the number column
emit_left_column(line_index) ==
    IF line_index.some THEN line_index.val + 1 ELSE 0

SeqContains(s, x) == \E i \in 1..Len(s) : s[i] = x

\* emit_multiline_indicators: the glyph of each slot
indicator_chars(slots, finishing_multiline_labels) ==
    [i \in 1..Len(slots) |->
        IF ~slots[i].some THEN "blank"
        ELSE IF slots[i].val.recently_added THEN "multiline_start"
        ELSE IF SeqContains(finishing_multiline_labels, slots[i].val.label_id)
             THEN "multiline_end"
        ELSE "vertical_bar"]

\* emit_multiline_indicators that leaves recently_added as it is
indicated_slots_keep(slots) == slots

\* emit_multiline_indicators: every occupied slot stops being recently added
indicated_slots(slots) ==
    [i \in 1..Len(slots) |->
        IF slots[i].some
        THEN Some([slots[i].val EXCEPT !.recently_added = FALSE])
        ELSE None]

\* first_empty that takes slot 0 whatever it holds
first_slot(slots) == IF slots = <<>> THEN 0 ELSE 1

\* first_empty that searches from the last slot down
last_empty(slots) ==
    IF \E i \in 1..Len(slots) : ~slots[i].some
    THEN CHOOSE i \in 1..Len(slots) :
            ~slots[i].some /\ \A j \in (i + 1)..Len(slots) : slots[j].some
    ELSE 0

\* the index of the first empty slot, 0 when there is none
first_empty(slots) ==
    IF \E i \in 1..Len(slots) : ~slots[i].some
    THEN CHOOSE i \in 1..Len(slots) :
            ~slots[i].some /\ \A j \in 1..(i - 1) : slots[j].some
    ELSE 0

\* allocate_multiline that numbers the labels by the slot they take
allocate_multiline_by_slot(w, label) ==
    [w EXCEPT !.slots[first_empty(w.slots)] =
                  Some([label_id |-> first_empty(w.slots) - 1, label |-> label,
                        recently_added |-> TRUE]),
              !.multiline_id = @ + 1]

\* allocate_multiline, where a slot is empty
allocate_multiline(w, label) ==
    [w EXCEPT !.slots[first_empty(w.slots)] =
                  Some([label_id |-> w.multiline_id, label |-> label,
                        recently_added |-> TRUE]),
              !.multiline_id = @ + 1]

\* start_multiline_labels: the loop over the starting labels
RECURSIVE start_multiline_labels(_, _)
start_multiline_labels(w, starting) ==
    IF starting = <<>> THEN [writer |-> w, panic |-> ""]
    ELSE IF first_empty(w.slots) = 0
    THEN [writer |-> w, panic |-> "has enough slots"]
    ELSE start_multiline_labels(allocate_multiline(w, Head(starting)),
                                Tail(starting))

\* the outcomes of the usize subtraction a - b: the difference, or on
\* underflow the panic of a build that checks overflow and the wrapped
\* value of a build that does not
usize_sub(a, b) ==
    IF a >= b THEN {[overflow |-> FALSE, val |-> a - b]}
    ELSE {[overflow |-> TRUE, val |-> 0],
          [overflow |-> FALSE, val |-> ((a - b) + USIZE_MAX) + 1]}

\* emit_source_line: the indentation left after trimming; an empty line
\* is not trimmed
indent_level(line, indent_trim) ==
    IF line.text = <<>> THEN {[overflow |-> FALSE, val |-> 0]}
    ELSE usize_sub(line.indent_size, indent_trim)

\* the byte ranges of emit_singleline_labels into the line text
before_underline_range(line, label) ==
    [start |-> 0, end |-> label.span.start - line.dedented_span.start]

underline_range(line, label) ==
    [start |-> before_underline_range(line, label).end,
     end |-> Min(label.span.end, Len(line.text)) - line.dedented_span.start]

\* &text[range], where the range is a valid one
Slice(text, range) == SubSeq(text, range.start + 1, range.end)

\* the panic of computing and slicing the two ranges, "" when there is none:
\* an unsigned subtraction that underflows panics where overflow is checked
\* and wraps to a range beyond the text otherwise, which the slicing refuses
singleline_panic(line, label) ==
    LET before == before_underline_range(line, label)
        under == underline_range(line, label)
    IN  IF before.end < 0 \/ under.end < 0
        THEN "attempt to subtract with overflow, or slice index out of range"
        ELSE IF before.end > Len(line.text)
             \/ under.start > under.end
             \/ under.end > Len(line.text)
        THEN "slice index out of range"
        ELSE ""

\* the row of one single-line label
singleline_row(w, ch, label) ==
    Row("singleline", emit_left_column(None),
        indicator_chars(w.slots, ch.finishing_multiline_labels),
        w.current_indent_level, <<>>,
        dislay_width(Slice(ch.line.text,
                           before_underline_range(ch.line, label))),
        dislay_width(Slice(ch.line.text,
                           underline_range(ch.line, label))),
        label.message)

\* emit_singleline_labels: the loop over the labels of the ch
RECURSIVE emit_singleline_labels(_, _, _, _)
emit_singleline_labels(w, ch, ls, rows) ==
    IF ls = <<>> THEN [writer |-> w, rows |-> rows, panic |-> ""]
    ELSE IF singleline_panic(ch.line, Head(ls)) # ""
    THEN [writer |-> [w EXCEPT !.slots = indicated_slots(@)], rows |-> rows,
          panic |-> singleline_panic(ch.line, Head(ls))]
    ELSE emit_singleline_labels([w EXCEPT !.slots = indicated_slots(@)],
            ch, Tail(ls), Append(rows, singleline_row(w, ch, Head(ls))))

\* the slot that holds the label, 0 when none does
slot_of(slots, label_id) ==
    IF \E i \in 1..Len(slots) : slots[i].some /\ slots[i].val.label_id = label_id
    THEN CHOOSE i \in 1..Len(slots) :
            /\ slots[i].some /\ slots[i].val.label_id = label_id
            /\ \A j \in 1..(i - 1) :
                  ~(slots[j].some /\ slots[j].val.label_id = label_id)
    ELSE 0

\* what the write! of one slot prints: two blanks for an empty slot, the
\* glyph and a horizontal bar on a closing row from the closing slot on,
\* the glyph and a blank otherwise
lane_text(glyph) ==
    IF glyph = "blank" THEN <<" ", " ">>
    ELSE IF glyph \in {"connection_top_to_right", "multiline_crossing"}
    THEN <<glyph, "horizontal_bar">>
    ELSE <<glyph, " ">>

\* what the loops over the slots print on a row
RECURSIVE lanes_text(_)
lanes_text(lanes) ==
    IF lanes = <<>> THEN <<>>
    ELSE lane_text(Head(lanes)) \o lanes_text(Tail(lanes))

\* closing_chars that stops at the closing slot
closing_chars_break(slots, c) ==
    [i \in 1..c |->
        IF i < c THEN (IF slots[i].some THEN "vertical_bar" ELSE "blank")
        ELSE "connection_top_to_right"]

\* closing_chars that draws a crossing in every other occupied slot
closing_chars_crossing(slots, c) ==
    [i \in 1..Len(slots) |->
        IF i = c THEN "connection_top_to_right"
        ELSE (IF slots[i].some THEN "multiline_crossing" ELSE "blank")]

\* emit_multiline_label: the glyphs of the closing row of the label in
\* slot c: the first loop up to and including c, the second loop after it
closing_chars(slots, c) ==
    [i \in 1..Len(slots) |->
        IF i < c THEN (IF slots[i].some THEN "vertical_bar" ELSE "blank")
        ELSE IF i = c THEN "connection_top_to_right"
        ELSE (IF slots[i].some THEN "multiline_crossing" ELSE "blank")]

\* the take that leaves the label in its slot
take_slot_keep(slots, c) == slots

\* emit_multiline_label: std::mem::take of the slot of the label
take_slot(slots, c) == [slots EXCEPT ![c] = None]

---------------------------------------------------------------------------
(* The sink of a render, a std::io::Write.  A row is written whole or not *)
(* at all: its first write decides.                                       *)

\* a sink that accepts budget more rows before its writes fail (a negative
\* budget: it never fails); failed, whether a write has failed; refused,
\* the number of writes that failed
Sink(budget) == [budget |-> budget, failed |-> FALSE, refused |-> 0]

ReliableSink == Sink(-1)

\* the rows the sink accepts out of n written one after another
accepted(s, n) == IF s.budget < 0 THEN n ELSE Min(s.budget, n)

\* the sink after n rows are written to it with ? on every write: the
\* first failure ends the writing
sink_after(s, n) ==
    IF accepted(s, n) < n
    THEN [budget |-> 0, failed |-> TRUE, refused |-> s.refused + 1]
    ELSE [s EXCEPT !.budget = IF @ < 0 THEN @ ELSE @ - n]

\* write!/writeln! of one row
sink_write(s) == sink_after(s, 1)

\* the write that took the sink from s to t succeeded
wrote(s, t) == t.refused = s.refused

\* the ? operator that goes on with the error
propagate_ignore(s, next_pc) == next_pc

\* the ? operator on the io::Result of a write: an error is returned at
\* once, up to the caller of write_to
propagate(s, next_pc) == IF s.failed THEN "io_error" ELSE next_pc

---------------------------------------------------------------------------
(* src/src/diagnostic.rs: the rows around the body, and the compact body *)

\* write_header: the message, then the source name behind a padding of
\* line_number_width
write_header(line_number_width) ==
    Row("header", 0, <<>>, line_number_width, <<>>, 0, 0, 0)

\* write_footnotes and the empty line that ends write_to
write_footnotes(line_number_width) ==
    <<Row("footnote", 0, <<>>, line_number_width, <<>>, 0, 0, 0),
      Row("end", 0, <<>>, 0, <<>>, 0, 0, 0)>>

\* write_body_compact: the loop over the labels as they were added.  A row
\* "[line N]" holds N in number; a row "[lines N..M]" holds N in number
\* and M in underline.
RECURSIVE write_body_compact(_, _)
write_body_compact(ls, rows) ==
    IF ls = <<>> THEN [rows |-> rows, panic |-> ""]
    ELSE IF ~line_range(Head(ls)).some
    THEN [rows |-> rows, panic |-> "label should have span in range"]
    ELSE LET range == line_range(Head(ls)).val
         IN  write_body_compact(Tail(ls), Append(rows,
                IF range.start + 1 = range.end
                THEN Row("compact_line", range.start, <<>>, 0, <<>>, 0, 0,
                         Head(ls).message)
                ELSE Row("compact_lines", range.start, <<>>, 0, <<>>, 0,
                         range.end, Head(ls).message)))

\* write_to_compact that takes the labels in the order of the sweep
write_to_compact_sorted(ls) ==
    LET body == write_body_compact(sort_by_reverse_start(ls),
                    <<Row("header_compact", 0, <<>>, 0, <<>>, 0, 0, 0)>>)
    IN  IF body.panic # "" THEN body
        ELSE [rows |-> body.rows \o write_footnotes(0), panic |-> ""]

\* write_to_compact: the header, the body, the footnotes and the last line
write_to_compact(ls) ==
    LET body == write_body_compact(ls,
                    <<Row("header_compact", 0, <<>>, 0, <<>>, 0, 0, 0)>>)
    IN  IF body.panic # "" THEN body
        ELSE [rows |-> body.rows \o write_footnotes(0), panic |-> ""]

---------------------------------------------------------------------------
(* Queries on a Source alone *)

\* a query: the function called, and its offset or span
Call(fn, index, span) == [fn |-> fn, index |-> index, span |-> span]
NoCall == Call("none", 0, SourceSpan(0, 0))
\* what a query returned: the line index or the line range
NoDedent == [offset |-> 0, width |-> 0, text |-> <<>>]
NoRet == [index |-> None, range |-> None, span |-> None, dedent |-> NoDedent]

\* no earlier render has ended
NoPrior == [ended |-> FALSE, fn |-> "none", pc |-> "", result |-> <<>>,
            slots |-> <<>>, out |-> <<>>, panic_msg |-> ""]

IdleBuilder == [labels |-> <<>>, active_labels |-> <<>>, multiline_id |-> 0,
                current_line |-> 0, indent_trim |-> USIZE_MAX, result |-> <<>>]

IdleWriter == [descriptor |-> [chunks |-> <<>>, indent_trim |-> USIZE_MAX,
                               line_number_width |-> 0,
                               maximum_parallel_labels |-> 0],
               slots |-> <<>>, multiline_id |-> 0, line_number_width |-> 0,
               current_indent_level |-> 0]

NoChunk == [line |-> [index |-> 0, indent_size |-> 0,
                      full_span |-> SourceSpan(0, 0),
                      dedented_span |-> SourceSpan(0, 0), text |-> <<>>],
            singleline_labels |-> <<>>,
            starting_multiline_labels |-> <<>>,
            finishing_multiline_labels |-> <<>>]

\* no second render call
NoOther == [turn |-> "none", labels |-> <<>>, pc |-> "idle",
            builder |-> IdleBuilder, writer |-> IdleWriter, chunks |-> <<>>,
            chunk |-> NoChunk, out |-> <<>>, panic_msg |-> "", call |-> NoCall]

SourceInit ==
    /\ src \in Texts(QueryAlphabet, MaxQueryLen)
    /\ lines = lines_of(src)
    /\ labels = <<>>
    /\ pc = "source"
    /\ builder = IdleBuilder
    /\ writer = IdleWriter
    /\ chunks = <<>>
    /\ chunk = NoChunk
    /\ out = <<>>
    /\ panic_msg = ""
    /\ call = NoCall
    /\ ret = NoRet
    /\ prior = NoPrior
    /\ sink = ReliableSink
    /\ other = NoOther

LineIndexAt ==
    /\ pc = "source"
    /\ \E index \in 0..(Len(src) + 1) :
        /\ call' = Call("line_index_at", index, SourceSpan(0, 0))
        /\ ret' = [NoRet EXCEPT !.index = line_index_at(index)]
    /\ pc' = "returned"
    /\ UNCHANGED <<src, lines, labels, builder, writer, chunks, chunk, out, panic_msg,
                   prior, sink, other>>

LineRangeOfSpan ==
    /\ pc = "source"
    /\ \E span \in Spans(Len(src) + 1) :
        /\ call' = Call("line_range_of_span", 0, span)
        /\ ret' = [NoRet EXCEPT !.range = line_range_of_span(span)]
    /\ pc' = "returned"
    /\ UNCHANGED <<src, lines, labels, builder, writer, chunks, chunk, out, panic_msg,
                   prior, sink, other>>

\* SourceSpan::new(start, end), also behind From<Range<T>>
SourceSpanNew ==
    /\ pc = "source"
    /\ \E start, end \in (0..(Len(src) + 1)) \cup {U32_MAX} :
        /\ call' = Call("SourceSpan::new", 0, SourceSpan(start, end))
        /\ \E r \in {SourceSpan_new(start, end)} :
            /\ ret' = [NoRet EXCEPT !.span = r.span]
            /\ panic_msg' = r.panic
            /\ pc' = IF r.panic # "" THEN "panic" ELSE "returned"
    /\ UNCHANGED <<src, lines, labels, builder, writer, chunks, chunk, out,
                   prior, sink, other>>

SourceNext == LineIndexAt \/ LineRangeOfSpan \/ SourceSpanNew

SourceSpec == SourceInit /\ [][SourceNext]_vars

---------------------------------------------------------------------------
(* A text: Source::new indexes it, dedent strips it *)

TextInit ==
    /\ src \in Texts(TextAlphabet, MaxTextLen)
    /\ lines = <<>>
    /\ labels = <<>>
    /\ pc = "text"
    /\ builder = IdleBuilder
    /\ writer = IdleWriter
    /\ chunks = <<>>
    /\ chunk = NoChunk
    /\ out = <<>>
    /\ panic_msg = ""
    /\ call = NoCall
    /\ ret = NoRet
    /\ prior = NoPrior
    /\ sink = ReliableSink
    /\ other = NoOther

\* Source::new(src, name)
SourceNew ==
    /\ pc = "text"
    /\ call' = Call("Source::new", 0, SourceSpan(0, 0))
    /\ lines' = lines_of(src)
    /\ pc' = "source"
    /\ UNCHANGED <<src, labels, builder, writer, chunks, chunk, out, panic_msg,
                   ret, prior, sink, other>>

\* dedent(s)
Dedent ==
    /\ pc = "text"
    /\ call' = Call("dedent", 0, SourceSpan(0, 0))
    /\ ret' = [NoRet EXCEPT !.dedent = dedent(src)]
    /\ pc' = "returned"
    /\ UNCHANGED <<src, lines, labels, builder, writer, chunks, chunk, out,
                   panic_msg, prior, sink, other>>

TextNext == SourceNew \/ Dedent

TextSpec == TextInit /\ [][TextNext]_vars

---------------------------------------------------------------------------
(* A render: Diagnostic::write_to builds the descriptor and writes it *)

\* the label lists of at most n labels with spans in S; the message of a
\* label is its position in the list
LabelLists(S, n) ==
    UNION {{[i \in 1..k |-> Label(f[i], i)] : f \in [1..k -> S]} : k \in 0..n}

Init ==
    /\ src \in Texts(Alphabet, MaxLen)
    /\ lines = lines_of(src)
    /\ labels \in LabelLists(Spans(Len(src)), MaxLabels)
    /\ pc = "write_to"
    /\ builder = IdleBuilder
    /\ writer = IdleWriter
    /\ chunks = <<>>
    /\ chunk = NoChunk
    /\ out = <<>>
    /\ panic_msg = ""
    /\ call = NoCall
    /\ ret = NoRet
    /\ prior = NoPrior
    /\ sink = ReliableSink
    /\ other = NoOther

\* Diagnostic::write_to starts: BodyDescriptor::new makes the builder
DescriptorBuilderNew ==
    /\ pc = "write_to"
    /\ builder' = DescriptorBuilder_new(labels)
    /\ call' = Call("write_to", 0, SourceSpan(0, 0))
    /\ pc' = "emit_events"
    /\ UNCHANGED <<src, lines, labels, writer, chunks, chunk, out, panic_msg,
                   ret, prior, sink, other>>

\* the condition of the loop of emit_events
HasEvents(b) == b.labels # <<>> \/ b.active_labels # <<>>

\* one iteration of the loop of emit_events
EmitEvents ==
    /\ pc = "emit_events"
    /\ HasEvents(builder)
    /\ \E r \in {emit_events_body(builder)} :
           /\ builder' = r.builder
           /\ panic_msg' = r.panic
           /\ pc' = IF r.panic # "" THEN "panic" ELSE "emit_events"
    /\ UNCHANGED <<src, lines, labels, writer, chunks, chunk, out, call, ret, prior, sink, other>>

\* the rest of DescriptorBuilder::build, BodyWriter::new and the take of the
\* chunks at the start of BodyWriter::write
Build ==
    /\ pc = "emit_events"
    /\ ~HasEvents(builder)
    /\ \E descriptor \in {build(builder)} :
           /\ writer' = [BodyWriter_new(descriptor) EXCEPT
                            !.descriptor.chunks = <<>>]
           /\ chunks' = descriptor.chunks
    /\ pc' = "write_header"
    /\ UNCHANGED <<src, lines, labels, builder, chunk, out, panic_msg, call, ret, prior, sink, other>>

\* Diagnostic::write_header, ahead of the body
WriteHeader ==
    /\ pc = "write_header"
    /\ \E s \in {sink_write(sink)} :
           /\ sink' = s
           /\ out' = IF wrote(sink, s)
                     THEN Append(out, write_header(writer.line_number_width))
                     ELSE out
           /\ pc' = propagate(s, "write")
    /\ UNCHANGED <<src, lines, labels, builder, writer, chunks, chunk,
                   panic_msg, call, ret, prior, other>>

\* BodyWriter::write is at the head of its loop
AtLoopHead ==
    \/ pc = "write"
    \/ pc = "finish_multiline_labels" /\ chunk.finishing_multiline_labels = <<>>

\* the next chunk is taken and start_multiline_labels runs on it
StartMultilineLabels ==
    /\ AtLoopHead
    /\ chunks # <<>>
    /\ \E r \in {start_multiline_labels(writer,
                    Head(chunks).starting_multiline_labels)} :
           /\ writer' = r.writer
           /\ panic_msg' = r.panic
           /\ pc' = IF r.panic # "" THEN "panic" ELSE "emit_source_line"
    /\ chunk' = [Head(chunks) EXCEPT !.starting_multiline_labels = <<>>]
    /\ chunks' = Tail(chunks)
    /\ UNCHANGED <<src, lines, labels, builder, out, call, ret, prior, sink, other>>

\* emit_source_line: the left column is written before the indentation is
\* computed
EmitSourceLine ==
    /\ pc = "emit_source_line"
    /\ \E level \in indent_level(chunk.line, writer.descriptor.indent_trim),
          s \in {sink_write(sink)} :
        /\ sink' = s
        /\ IF propagate(s, "emit_singleline_labels") = "io_error"
           THEN /\ pc' = "io_error"
                /\ UNCHANGED <<writer, out, panic_msg>>
           ELSE IF level.overflow
           THEN /\ panic_msg' = "attempt to subtract with overflow"
                /\ pc' = "panic"
                /\ writer' = [writer EXCEPT !.slots = indicated_slots(@)]
                /\ out' = out
           ELSE /\ panic_msg' = panic_msg
                /\ pc' = "emit_singleline_labels"
                /\ writer' = [writer EXCEPT !.slots = indicated_slots(@),
                                            !.current_indent_level = level.val]
                /\ out' = IF wrote(sink, s)
                          THEN Append(out,
                               Row("source", emit_left_column(Some(chunk.line.index)),
                                   indicator_chars(writer.slots,
                                       chunk.finishing_multiline_labels),
                                   level.val, chunk.line.text, 0, 0, 0))
                          ELSE out
    /\ UNCHANGED <<src, lines, labels, builder, chunks, chunk, call, ret, prior, other>>

\* emit_singleline_labels: one row per label; the left column of a row is
\* written before its ranges are computed
EmitSinglelineLabels ==
    /\ pc = "emit_singleline_labels"
    /\ \E r \in {emit_singleline_labels(writer, chunk,
                    chunk.singleline_labels, <<>>)} :
         \E n \in {Len(r.rows) + (IF r.panic # "" THEN 1 ELSE 0)} :
           /\ sink' = sink_after(sink, n)
           /\ writer' = r.writer
           /\ out' = out \o SubSeq(r.rows, 1, Min(accepted(sink, n), Len(r.rows)))
           /\ IF propagate(sink_after(sink, n), "finish_multiline_labels")
                   = "io_error"
              THEN pc' = "io_error" /\ panic_msg' = panic_msg
              ELSE /\ panic_msg' = r.panic
                   /\ pc' = IF r.panic # "" THEN "panic"
                            ELSE "finish_multiline_labels"
    /\ chunk' = [chunk EXCEPT !.singleline_labels = <<>>]
    /\ UNCHANGED <<src, lines, labels, builder, chunks, call, ret, prior, other>>

\* finish_multiline_labels: emit_multiline_label on the next finishing label
EmitMultilineLabel ==
    /\ pc = "finish_multiline_labels"
    /\ chunk.finishing_multiline_labels # <<>>
    /\ \E s \in {sink_write(sink)} :
       LET label_id == Head(chunk.finishing_multiline_labels)
           c == slot_of(writer.slots, label_id)
       IN  /\ sink' = s
           /\ IF propagate(s, pc) = "io_error"
              THEN /\ pc' = "io_error"
                   /\ UNCHANGED <<writer, out, panic_msg>>
              ELSE IF c = 0
              THEN /\ panic_msg' = "called Option::unwrap() on a None value"
                   /\ pc' = "panic"
                   /\ UNCHANGED <<writer, out>>
              ELSE /\ writer' = [writer EXCEPT !.slots = take_slot(@, c)]
                   /\ out' = IF wrote(sink, s)
                             THEN Append(out,
                                  Row("multiline", emit_left_column(None),
                                      closing_chars(writer.slots, c), 0, <<>>, 0, 0,
                                      writer.slots[c].val.label.message))
                             ELSE out
                   /\ UNCHANGED <<pc, panic_msg>>
    /\ chunk' = [chunk EXCEPT !.finishing_multiline_labels = Tail(@)]
    /\ UNCHANGED <<src, lines, labels, builder, chunks, call, ret, prior, other>>

\* the loop of BodyWriter::write is over
WriteDone ==
    /\ AtLoopHead
    /\ chunks = <<>>
    /\ pc' = "write_footnotes"
    /\ UNCHANGED <<src, lines, labels, builder, writer, chunks, chunk, out, panic_msg,
                   call, ret, prior, sink, other>>

\* Diagnostic::write_footnotes and the last line of write_to
WriteFootnotes ==
    /\ pc = "write_footnotes"
    /\ sink' = sink_after(sink, 2)
    /\ out' = out \o SubSeq(write_footnotes(writer.line_number_width), 1,
                            accepted(sink, 2))
    /\ pc' = propagate(sink_after(sink, 2), "done")
    /\ UNCHANGED <<src, lines, labels, builder, writer, chunks, chunk,
                   panic_msg, call, ret, prior, other>>

\* Diagnostic::write_to_compact, in one step
WriteToCompact ==
    /\ pc = "write_to"
    /\ call' = Call("write_to_compact", 0, SourceSpan(0, 0))
    /\ \E r \in {write_to_compact(labels)} :
         \E n \in {Len(r.rows)} :
           /\ sink' = sink_after(sink, n)
           /\ out' = out \o SubSeq(r.rows, 1, accepted(sink, n))
           /\ IF propagate(sink_after(sink, n), "done") = "io_error"
              THEN pc' = "io_error" /\ panic_msg' = panic_msg
              ELSE /\ panic_msg' = r.panic
                   /\ pc' = IF r.panic # "" THEN "panic" ELSE "done"
    /\ UNCHANGED <<src, lines, labels, builder, writer, chunks, chunk, ret,
                   prior, other>>

Next ==
    \/ DescriptorBuilderNew
    \/ EmitEvents
    \/ Build
    \/ WriteHeader
    \/ StartMultilineLabels
    \/ EmitSourceLine
    \/ EmitSinglelineLabels
    \/ EmitMultilineLabel
    \/ WriteDone
    \/ WriteFootnotes
    \/ WriteToCompact

Spec == Init /\ [][Next]_vars

\* a render has ended, with Ok, an error or a panic
Ended == pc \in {"done", "panic", "io_error"}

\* the diagnostic is rendered once more, to a new sink: what the first
\* render produced is kept aside; the builder and the writer of the first
\* render are dropped, and what they held is left behind
WriteToAgain ==
    /\ Ended
    /\ ~prior.ended
    /\ prior' = [ended |-> TRUE, fn |-> call.fn, pc |-> pc,
                 result |-> builder.result, slots |-> writer.slots,
                 out |-> out, panic_msg |-> panic_msg]
    /\ pc' = "write_to"
    /\ out' = <<>>
    /\ panic_msg' = ""
    /\ call' = NoCall
    /\ UNCHANGED <<src, lines, labels, builder, writer, chunks, chunk, ret,
                   sink, other>>

TwiceNext == Next \/ WriteToAgain

\* two renders of the same diagnostic, one after the other
TwiceSpec == Init /\ [][TwiceNext]_vars

\* a render of a diagnostic whose labels were made for another buffer:
\* their spans may reach up to MaxOver bytes behind the source
StrayInit ==
    /\ src \in Texts(Alphabet, MaxLen)
    /\ lines = lines_of(src)
    /\ labels \in LabelLists(Spans(Len(src) + MaxOver), MaxLabels)
    /\ pc = "write_to"
    /\ builder = IdleBuilder
    /\ writer = IdleWriter
    /\ chunks = <<>>
    /\ chunk = NoChunk
    /\ out = <<>>
    /\ panic_msg = ""
    /\ call = NoCall
    /\ ret = NoRet
    /\ prior = NoPrior
    /\ sink = ReliableSink
    /\ other = NoOther

StraySpec == StrayInit /\ [][Next]_vars

\* a render to a sink that accepts between 0 and MaxWrites rows and fails
\* from then on
SinkInit ==
    /\ src \in Texts(Alphabet, MaxSinkLen)
    /\ lines = lines_of(src)
    /\ labels \in LabelLists(Spans(Len(src)), MaxLabels)
    /\ pc = "write_to"
    /\ builder = IdleBuilder
    /\ writer = IdleWriter
    /\ chunks = <<>>
    /\ chunk = NoChunk
    /\ out = <<>>
    /\ panic_msg = ""
    /\ call = NoCall
    /\ ret = NoRet
    /\ prior = NoPrior
    /\ sink \in {Sink(k) : k \in 0..MaxWrites}
    /\ other = NoOther

SinkSpec == SinkInit /\ [][Next]_vars

\* a render over a source of up to MaxLongLen empty lines, enough for line
\* numbers of two digits
LongInit ==
    /\ src \in Texts({"\n"}, MaxLongLen)
    /\ lines = lines_of(src)
    /\ labels \in LabelLists(Spans(Len(src)), MaxLabels)
    /\ pc = "write_to"
    /\ builder = IdleBuilder
    /\ writer = IdleWriter
    /\ chunks = <<>>
    /\ chunk = NoChunk
    /\ out = <<>>
    /\ panic_msg = ""
    /\ call = NoCall
    /\ ret = NoRet
    /\ prior = NoPrior
    /\ sink = ReliableSink
    /\ other = NoOther

LongSpec == LongInit /\ [][Next]_vars

\* the scheduler lets the other render call run: the call that ran is set
\* aside with all that is its own (its labels, its builder and writer, its
\* output), the Source stays where it is
Switch ==
    /\ prior.ended
    /\ other.pc \notin {"idle", "done", "panic", "io_error"}
    /\ other' = [turn |-> IF other.turn = "second" THEN "first" ELSE "second",
                 labels |-> labels, pc |-> pc, builder |-> builder,
                 writer |-> writer, chunks |-> chunks, chunk |-> chunk,
                 out |-> out, panic_msg |-> panic_msg, call |-> call]
    /\ labels' = other.labels
    /\ pc' = other.pc
    /\ builder' = other.builder
    /\ writer' = other.writer
    /\ chunks' = other.chunks
    /\ chunk' = other.chunk
    /\ out' = other.out
    /\ panic_msg' = other.panic_msg
    /\ call' = other.call
    /\ UNCHANGED <<src, lines, ret, prior, sink>>

\* two diagnostics over one Source: the first is rendered alone, then once
\* more while a render of the second runs
PairInit ==
    /\ src \in Texts(LaneAlphabet, MaxPairLen)
    /\ lines = lines_of(src)
    /\ labels \in LabelLists(Spans(Len(src)), MaxPairLabels)
    /\ pc = "write_to"
    /\ builder = IdleBuilder
    /\ writer = IdleWriter
    /\ chunks = <<>>
    /\ chunk = NoChunk
    /\ out = <<>>
    /\ panic_msg = ""
    /\ call = NoCall
    /\ ret = NoRet
    /\ prior = NoPrior
    /\ sink = ReliableSink
    /\ \E ls \in LabelLists(Spans(Len(src)), MaxPairLabels) :
          other = [NoOther EXCEPT !.turn = "second", !.labels = ls,
                                  !.pc = "write_to"]

PairNext == Next \/ WriteToAgain \/ Switch

PairSpec == PairInit /\ [][PairNext]_vars

\* a render of a diagnostic whose labels all span several lines
LaneInit ==
    /\ src \in Texts(LaneAlphabet, MaxLaneLen)
    /\ lines = lines_of(src)
    /\ labels \in LabelLists(
           {span \in Spans(Len(src)) :
               /\ line_range_of_span(span).some
               /\ line_range_of_span(span).val.start + 1
                     < line_range_of_span(span).val.end},
           MaxLaneLabels)
    /\ pc = "write_to"
    /\ builder = IdleBuilder
    /\ writer = IdleWriter
    /\ chunks = <<>>
    /\ chunk = NoChunk
    /\ out = <<>>
    /\ panic_msg = ""
    /\ call = NoCall
    /\ ret = NoRet
    /\ prior = NoPrior
    /\ sink = ReliableSink
    /\ other = NoOther

LaneSpec == LaneInit /\ [][Next]_vars

---------------------------------------------------------------------------
(* src/src/diagnostic/body.rs: the single-pass BodyWriter *)

\* the sources and labels of the renders of the single-pass writer
BodyAlphabet == {"a", " ", "\n"}
MaxBodyLen == 4
MaxBodyLabels == 2

\* ident_info: the width of the blanks and tabs a text begins with, and
\* the byte at which they end
RECURSIVE ident_info_from(_, _, _)
ident_info_from(text, i, len) ==
    IF i > Len(text) THEN [end |-> Len(text), len |-> len]
    ELSE IF text[i] = " " THEN ident_info_from(text, i + 1, len + 1)
    ELSE IF text[i] = "\t" THEN ident_info_from(text, i + 1, len + 4)
    ELSE [end |-> i - 1, len |-> len]

ident_info(text) == ident_info_from(text, 1, 0)

\* UnicodeWidthStr::width: a control character has no width
unicode_width(s) ==
    Cardinality({i \in 1..Len(s) : s[i] \notin {"\t", "\n", "\r"}})

\* Source::line: the whole text of the line with an index, if there is one
Source_line(index) ==
    IF index < Len(lines)
    THEN Some(SubSeq(src, lines[index + 1].full_span.start + 1,
                     lines[index + 1].full_span.end))
    ELSE None

SinglelineLabel(message, line, line_span) ==
    [message |-> message, line |-> line, line_span |-> line_span]

MultilineLabel(message, range) ==
    [message |-> message, line_range |-> range]

\* a slot: Inactive, or RecentlyAdded or Active with a label
Inactive == [state |-> "Inactive", label |-> MultilineLabel(0, [start |-> 0, end |-> 0])]
RecentlyAdded(label) == [state |-> "RecentlyAdded", label |-> label]
Active(label) == [state |-> "Active", label |-> label]

is_active(slot) == slot.state # "Inactive"

\* the outcome of the usize subtraction a - b in a build with or without
\* overflow checks
usize_sub_in(overflow_checks, a, b) ==
    IF a >= b THEN [overflow |-> FALSE, val |-> a - b]
    ELSE IF overflow_checks THEN [overflow |-> TRUE, val |-> 0]
    ELSE [overflow |-> FALSE, val |-> ((a - b) + USIZE_MAX) + 1]

\* the outcome of the usize addition a + b
usize_add_in(overflow_checks, a, b) ==
    IF a <= USIZE_MAX - b THEN [overflow |-> FALSE, val |-> a + b]
    ELSE IF overflow_checks THEN [overflow |-> TRUE, val |-> 0]
    ELSE [overflow |-> FALSE, val |-> ((a - USIZE_MAX) - 1) + b]

\* the permutations of 1..n
Perms(n) == Permutations(1..n)

\* sort_unstable_by_key, given the key of each element: every order of the
\* elements in which the keys ascend; the order of elements with equal keys
\* is not specified
sort_unstable_by_key(s, keys) ==
    UNION {{[i \in 1..Len(t) |-> t[p[i]]] :
               p \in {q \in Perms(Len(t)) :
                         \A i \in 1..(Len(t) - 1) : k[q[i]] <= k[q[i + 1]]}} :
              t \in {s}, k \in {keys}}

\* slots_needed: the events of the labels, a Start and an End for each
RECURSIVE events_of(_)
events_of(ls) ==
    IF ls = <<>> THEN <<>>
    ELSE <<[kind |-> "Start", index |-> Head(ls).line_range.start],
           [kind |-> "End", index |-> Head(ls).line_range.end]>>
         \o events_of(Tail(ls))

\* Event::index that takes the End of a label for its last line
event_index_last_line(event) ==
    IF event.kind = "End" THEN event.index - 1 ELSE event.index

\* Event::index
event_index(event) == event.index

\* slots_needed: the loop over the sorted events
RECURSIVE slots_needed_from(_, _, _, _)
slots_needed_from(overflow_checks, events, current, max) ==
    IF events = <<>> THEN [overflow |-> FALSE, val |-> max]
    ELSE LET next == IF Head(events).kind = "Start"
                     THEN [overflow |-> FALSE, val |-> current + 1]
                     ELSE usize_sub_in(overflow_checks, current, 1)
         IN  IF next.overflow THEN [overflow |-> TRUE, val |-> max]
             ELSE slots_needed_from(overflow_checks, Tail(events), next.val,
                                    IF next.val > max THEN next.val ELSE max)

\* slots_needed: every outcome of it, one for each order of the events
slots_needed(overflow_checks, ls) ==
    UNION {{slots_needed_from(overflow_checks, sorted, 0, 0) :
               sorted \in sort_unstable_by_key(events,
                             [i \in 1..Len(events) |->
                                 event_index(events[i])])} :
              events \in {events_of(ls)}}

\* BodyWriter::new: the single-line labels of the diagnostic
RECURSIVE singleline_labels_of(_)
singleline_labels_of(ls) ==
    IF ls = <<>> THEN <<>>
    ELSE IF is_singleline(Head(ls))
    THEN LET line_index == line_range(Head(ls)).val.start
             label_line_start ==
                 Head(ls).span.start - lines[line_index + 1].full_span.start
             label_line_end ==
                 label_line_start + SourceSpan_len(Head(ls).span).val
         IN  <<SinglelineLabel(Head(ls).message, line_index,
                               SourceSpan(label_line_start, label_line_end))>>
             \o singleline_labels_of(Tail(ls))
    ELSE singleline_labels_of(Tail(ls))

\* BodyWriter::new: the multi-line labels of the diagnostic
RECURSIVE multiline_labels_of(_)
multiline_labels_of(ls) ==
    IF ls = <<>> THEN <<>>
    ELSE IF is_singleline(Head(ls)) THEN multiline_labels_of(Tail(ls))
    ELSE <<MultilineLabel(Head(ls).message, line_range(Head(ls)).val)>>
         \o multiline_labels_of(Tail(ls))

\* BodyWriter::new: the least indentation of the lines of the single-line
\* labels and of the first and last lines of the multi-line labels
ident_width(singles, multis) ==
    LET indexes == {singles[i].line : i \in 1..Len(singles)}
                   \cup {multis[i].line_range.start : i \in 1..Len(multis)}
                   \cup {multis[i].line_range.end - 1 : i \in 1..Len(multis)}
        lens == {ident_info(Source_line(index).val).len : index \in indexes}
    IN  IF lens = {} THEN 0
        ELSE CHOOSE len \in lens : \A other_len \in lens : len <= other_len

\* BodyWriter::new, with an outcome of slots_needed
SinglePassWriter_new(overflow_checks, ls, needed) ==
    CHOOSE w \in {[overflow_checks |-> overflow_checks,
                   ident_len |-> ident_width(singleline_labels,
                                             multiline_labels),
                   singleline_labels |-> singleline_labels,
                   multiline_labels |-> multiline_labels,
                   multiline_slots |-> [i \in 1..needed |-> Inactive],
                   current_line |-> 0] :
                      singleline_labels \in {singleline_labels_of(ls)},
                      multiline_labels \in {multiline_labels_of(ls)}} : TRUE

\* enumerate().min_by_key(), given the key of each element: the first
\* position with the least key, 0 in an empty sequence
min_by_key(keys) ==
    IF keys = <<>> THEN 0
    ELSE CHOOSE i \in 1..Len(keys) :
            /\ \A j \in 1..Len(keys) : keys[i] <= keys[j]
            /\ \A j \in 1..(i - 1) : keys[j] > keys[i]

\* enumerate().find(), given the outcome of the test on each element: the
\* first position that passes, 0 if none does
find(passes) ==
    IF \E i \in 1..Len(passes) : passes[i]
    THEN CHOOSE i \in 1..Len(passes) :
            passes[i] /\ \A j \in 1..(i - 1) : ~passes[j]
    ELSE 0

\* Vec::remove
remove(s, index) == SubSeq(s, 1, index - 1) \o SubSeq(s, index + 1, Len(s))

\* next_label: which list the next label is taken from, and its position
next_label(w) ==
    LET single == min_by_key([i \in 1..Len(w.singleline_labels) |->
                                 w.singleline_labels[i].line])
        multi == min_by_key([i \in 1..Len(w.multiline_labels) |->
                                w.multiline_labels[i].line_range.start])
    IN  IF single = 0 /\ multi = 0 THEN [kind |-> "None", index |-> 0]
        ELSE IF multi = 0 THEN [kind |-> "Left", index |-> single]
        ELSE IF single # 0
                /\ w.singleline_labels[single].line
                      < w.multiline_labels[multi].line_range.start
        THEN [kind |-> "Left", index |-> single]
        ELSE [kind |-> "Right", index |-> multi]

next_singleline_label_in_current(w) ==
    find([i \in 1..Len(w.singleline_labels) |->
             w.singleline_labels[i].line = w.current_line])

next_multiline_label_in_current(w) ==
    find([i \in 1..Len(w.multiline_labels) |->
             w.multiline_labels[i].line_range.start = w.current_line])

has_active_multiline_labels(w) ==
    \E i \in 1..Len(w.multiline_slots) : is_active(w.multiline_slots[i])

\* what a step of the writer leaves: the writer, the rows it has written
\* and the message of its panic, "" when it has not panicked
Outcome(w, rows, panic) == [writer |-> w, rows |-> rows, panic |-> panic]

\* allocate_multiline_label
allocate_multiline_label(w, label) ==
    LET slot_index == find([i \in 1..Len(w.multiline_slots) |->
                               ~is_active(w.multiline_slots[i])])
    IN  IF slot_index # 0
        THEN Outcome([w EXCEPT !.multiline_slots[slot_index] =
                                   RecentlyAdded(label)], <<>>, "")
        ELSE Outcome(w, <<>>, "should have enough slots")

\* start_new_multiline_labels
RECURSIVE start_new_multiline_labels(_)
start_new_multiline_labels(w) ==
    LET index == next_multiline_label_in_current(w)
    IN  IF index = 0 THEN Outcome(w, <<>>, "")
        ELSE LET allocated ==
                     allocate_multiline_label(
                         [w EXCEPT !.multiline_labels = remove(@, index)],
                         w.multiline_labels[index])
             IN  IF allocated.panic # "" THEN allocated
                 ELSE start_new_multiline_labels(allocated.writer)

\* emit_multiline_indicators: the glyph of each slot
multiline_indicators(w) ==
    [i \in 1..Len(w.multiline_slots) |->
        LET slot == w.multiline_slots[i]
        IN  IF slot.state = "Inactive" THEN "blank"
            ELSE IF slot.state = "RecentlyAdded" THEN "multiline_start"
            ELSE IF slot.label.line_range.end = w.current_line + 1
            THEN "multiline_end"
            ELSE "vertical_bar"]

\* emit_multiline_indicators: a slot that was RecentlyAdded is now Active
emit_multiline_indicators(w) ==
    [w EXCEPT !.multiline_slots =
        [i \in 1..Len(@) |->
            IF @[i].state = "RecentlyAdded" THEN Active(@[i].label) ELSE @[i]]]

\* emit_source_line
emit_source_line(w, line, line_index) ==
    LET line_ident_info == ident_info(line)
        spaces == usize_sub_in(w.overflow_checks, line_ident_info.len,
                               w.ident_len)
    IN  IF spaces.overflow
        THEN Outcome(emit_multiline_indicators(w), <<>>,
                     "attempt to subtract with overflow")
        ELSE Outcome(emit_multiline_indicators(w),
                     <<Row("source", line_index + 1, multiline_indicators(w),
                           spaces.val,
                           SubSeq(line, line_ident_info.end + 1, Len(line)),
                           0, 0, 0)>>,
                     "")

\* emit_singleline_label
emit_singleline_label(w, line, label) ==
    LET w1 == emit_multiline_indicators(w)
        spaces == usize_sub_in(w.overflow_checks, ident_info(line).len,
                               w.ident_len)
        line_width == unicode_width(line)
    IN  IF spaces.overflow
        THEN Outcome(w1, <<>>, "attempt to subtract with overflow")
        ELSE IF label.line_span.start > Len(line)
                \/ label.line_span.end > Len(line)
        THEN Outcome(w1, <<>>, "byte index is out of bounds")
        ELSE
        LET before_underliner_width ==
                usize_add_in(w.overflow_checks, spaces.val,
                    unicode_width(SubSeq(line, 1, label.line_span.start)))
            after_underliner_width ==
                unicode_width(SubSeq(line, label.line_span.end + 1, Len(line)))
        IN  IF before_underliner_width.overflow
            THEN Outcome(w1, <<>>, "attempt to add with overflow")
            ELSE
            LET covered == usize_add_in(w.overflow_checks,
                               before_underliner_width.val,
                               after_underliner_width)
            IN  IF covered.overflow
                THEN Outcome(w1, <<>>, "attempt to add with overflow")
                ELSE
                LET underliner_width ==
                        usize_sub_in(w.overflow_checks, line_width, covered.val)
                IN  IF underliner_width.overflow
                    THEN Outcome(w1, <<>>, "attempt to subtract with overflow")
                    ELSE Outcome(w1,
                             <<Row("singleline", 0, multiline_indicators(w),
                                   spaces.val, <<>>,
                                   before_underliner_width.val,
                                   underliner_width.val, label.message)>>,
                             "")

\* emit_singleline_labels_in_current
RECURSIVE emit_singleline_labels_in_current(_, _, _)
emit_singleline_labels_in_current(w, line, rows) ==
    LET index == next_singleline_label_in_current(w)
    IN  IF index = 0 THEN Outcome(w, rows, "")
        ELSE LET emitted ==
                     emit_singleline_label(
                         [w EXCEPT !.singleline_labels = remove(@, index)],
                         line, w.singleline_labels[index])
             IN  IF emitted.panic # ""
                 THEN Outcome(emitted.writer, rows, emitted.panic)
                 ELSE emit_singleline_labels_in_current(emitted.writer, line,
                                                        rows \o emitted.rows)

\* emit_multiline_label_end: the glyph of each slot; the slot of the label
\* has been taken
multiline_label_end_chars(slots, label_slot) ==
    [i \in 1..Len(slots) |->
        IF i < label_slot
        THEN (IF slots[i].state = "Active" THEN "vertical_bar" ELSE "blank")
        ELSE IF i = label_slot THEN "connection_top_to_right"
        ELSE (IF slots[i].state = "Active" THEN "multiline_crossing"
              ELSE "horizontal_bar")]

\* emit_multiline_label_end
emit_multiline_label_end(w, line, label, label_slot) ==
    IF \E i \in 1..Len(w.multiline_slots) :
          i # label_slot /\ w.multiline_slots[i].state = "RecentlyAdded"
    THEN Outcome(w, <<>>, "singleline multiline labels should be impossible")
    ELSE Outcome(w,
             <<Row("multiline", 0,
                   multiline_label_end_chars(w.multiline_slots, label_slot),
                   0, <<>>, 0, unicode_width(line) + 1, label.message)>>,
             "")

\* try_finishing_active_multiline_labels
RECURSIVE try_finishing_from(_, _, _)
try_finishing_from(w, multiline_slot, rows) ==
    IF multiline_slot > Len(w.multiline_slots) THEN Outcome(w, rows, "")
    ELSE IF w.multiline_slots[multiline_slot].state # "Active"
    THEN try_finishing_from(w, multiline_slot + 1, rows)
    ELSE IF w.multiline_slots[multiline_slot].label.line_range.end
               = w.current_line + 1
    THEN LET label == w.multiline_slots[multiline_slot].label
             taken == [w EXCEPT !.multiline_slots[multiline_slot] = Inactive]
             line == Source_line(w.current_line)
         IN  IF ~line.some
             THEN Outcome(taken, rows,
                          "called Option::unwrap() on a None value")
             ELSE LET ended == emit_multiline_label_end(taken, line.val, label,
                                                        multiline_slot)
                  IN  IF ended.panic # ""
                      THEN Outcome(ended.writer, rows, ended.panic)
                      ELSE try_finishing_from(ended.writer, multiline_slot,
                                              rows \o ended.rows)
    ELSE try_finishing_from(w, multiline_slot + 1, rows)

try_finishing_active_multiline_labels(w) == try_finishing_from(w, 1, <<>>)

\* the line the next turn of the loop of write emits, if it emits one
line_to_emit(w) ==
    IF has_active_multiline_labels(w) THEN Some(w.current_line)
    ELSE LET label == next_label(w)
         IN  IF label.kind = "Left"
             THEN Some(w.singleline_labels[label.index].line)
             ELSE None

\* a render with the single-pass writer: BodyWriter::new has run
BodyInit ==
    /\ src \in Texts(BodyAlphabet, MaxBodyLen)
    /\ lines = lines_of(src)
    /\ labels \in LabelLists(Spans(Len(src)), MaxBodyLabels)
    /\ builder = IdleBuilder
    /\ chunks = <<>>
    /\ chunk = NoChunk
    /\ out = <<>>
    /\ call = Call("BodyWriter::write", 0, SourceSpan(0, 0))
    /\ ret = NoRet
    /\ prior = NoPrior
    /\ sink = ReliableSink
    /\ other = NoOther
    /\ \E overflow_checks \in BOOLEAN :
          IF \E i \in 1..Len(labels) : ~line_range(labels[i]).some
          THEN /\ writer = SinglePassWriter_new(overflow_checks, <<>>, 0)
               /\ pc = "panic"
               /\ panic_msg = "label should have span in range"
          ELSE \E needed \in UNION {slots_needed(overflow_checks, multis) :
                                      multis \in {multiline_labels_of(labels)}} :
                  IF needed.overflow
                  THEN /\ writer = SinglePassWriter_new(overflow_checks,
                                                        <<>>, 0)
                       /\ pc = "panic"
                       /\ panic_msg = "attempt to subtract with overflow"
                  ELSE /\ writer = SinglePassWriter_new(overflow_checks,
                                                        labels, needed.val)
                       /\ pc = "body:write"
                       /\ panic_msg = ""

\* write: the two unstable sorts before the loop
BodyWriteSort ==
    /\ pc = "body:write"
    /\ \E singles \in sort_unstable_by_key(writer.singleline_labels,
                          [i \in 1..Len(writer.singleline_labels) |->
                              0 - SourceSpan_len(
                                      writer.singleline_labels[i].line_span).val]),
          multis \in sort_unstable_by_key(writer.multiline_labels,
                          [i \in 1..Len(writer.multiline_labels) |->
                              0 - writer.multiline_labels[i].line_range.end]) :
          writer' = [writer EXCEPT !.singleline_labels = singles,
                                   !.multiline_labels = multis]
    /\ pc' = "body:loop"
    /\ UNCHANGED <<src, lines, labels, builder, chunks, chunk, out, panic_msg,
                   call, ret, prior, sink, other>>

\* write: the loop ends, no label is left
BodyDone ==
    /\ pc = "body:loop"
    /\ ~has_active_multiline_labels(writer)
    /\ next_label(writer).kind = "None"
    /\ pc' = "done"
    /\ UNCHANGED <<src, lines, labels, builder, writer, chunks, chunk, out,
                   panic_msg, call, ret, prior, sink, other>>

\* the turn of the loop for a single-line label, with no label in a slot
BodySingleline(w, index) ==
    LET label == w.singleline_labels[index]
        w1 == [w EXCEPT !.singleline_labels = remove(@, index),
                        !.current_line = label.line]
        line == Source_line(label.line)
    IN  IF ~line.some
        THEN Outcome(w1, <<>>, "called Option::unwrap() on a None value")
        ELSE LET source_line == emit_source_line(w1, line.val, label.line)
             IN  IF source_line.panic # "" THEN source_line
                 ELSE LET first == emit_singleline_label(source_line.writer,
                                                         line.val, label)
                      IN  IF first.panic # ""
                          THEN Outcome(first.writer, source_line.rows,
                                       first.panic)
                          ELSE emit_singleline_labels_in_current(
                                   first.writer, line.val,
                                   source_line.rows \o first.rows)

\* the turn of the loop for a multi-line label, with no label in a slot
BodyMultiline(w, index) ==
    LET label == w.multiline_labels[index]
        allocated ==
            allocate_multiline_label(
                [w EXCEPT !.multiline_labels = remove(@, index),
                          !.current_line = label.line_range.start],
                label)
    IN  IF allocated.panic # "" THEN allocated
        ELSE start_new_multiline_labels(allocated.writer)

\* the turn of the loop with a label in a slot: one line of the source
BodyLine(w) ==
    LET started == start_new_multiline_labels(w)
        line == Source_line(w.current_line)
    IN  IF started.panic # "" THEN started
        ELSE IF ~line.some
        THEN Outcome(started.writer, <<>>,
                     "called Option::unwrap() on a None value")
        ELSE LET source_line == emit_source_line(started.writer, line.val,
                                                 w.current_line)
             IN  IF source_line.panic # "" THEN source_line
                 ELSE LET singles == emit_singleline_labels_in_current(
                                         source_line.writer, line.val,
                                         source_line.rows)
                      IN  IF singles.panic # "" THEN singles
                          ELSE LET finished ==
                                       try_finishing_active_multiline_labels(
                                           singles.writer)
                               IN  IF finished.panic # ""
                                   THEN Outcome(finished.writer,
                                            singles.rows \o finished.rows,
                                            finished.panic)
                                   ELSE Outcome(
                                            [finished.writer EXCEPT
                                                !.current_line = @ + 1],
                                            singles.rows \o finished.rows,
                                            "")

\* what a turn of the loop leaves in the state
BodyTurn(turn) ==
    /\ writer' = turn.writer
    /\ out' = out \o turn.rows
    /\ panic_msg' = turn.panic
    /\ pc' = IF turn.panic # "" THEN "panic" ELSE "body:loop"
    /\ UNCHANGED <<src, lines, labels, builder, chunks, chunk, call, ret,
                   prior, sink, other>>

\* write: a turn of the loop that takes the next single-line label
BodyNextSingleline ==
    /\ pc = "body:loop"
    /\ ~has_active_multiline_labels(writer)
    /\ next_label(writer).kind = "Left"
    /\ \E turn \in {BodySingleline(writer, next_label(writer).index)} :
          BodyTurn(turn)

\* write: a turn of the loop that takes the next multi-line label
BodyNextMultiline ==
    /\ pc = "body:loop"
    /\ ~has_active_multiline_labels(writer)
    /\ next_label(writer).kind = "Right"
    /\ \E turn \in {BodyMultiline(writer, next_label(writer).index)} :
          BodyTurn(turn)

\* write: a turn of the loop while a label is in a slot
BodyNextLine ==
    /\ pc = "body:loop"
    /\ has_active_multiline_labels(writer)
    /\ \E turn \in {BodyLine(writer)} : BodyTurn(turn)

BodyNext ==
    \/ BodyWriteSort
    \/ BodyDone
    \/ BodyNextSingleline
    \/ BodyNextMultiline
    \/ BodyNextLine

BodySpec == BodyInit /\ [][BodyNext]_vars

---------------------------------------------------------------------------
(* Properties of the line index, under SourceSpec *)

\* line i (0-based) is the last line that starts at or before offset
LastLineStartingBy(i, offset) ==
    /\ i + 1 \in 1..Len(lines)
    /\ lines[i + 1].full_span.start <= offset
    /\ \A j \in 1..Len(lines) :
          lines[j].full_span.start <= offset => j <= i + 1

\* byte b of the source is a line terminator
IsNewline(b) == b \in 0..(Len(src) - 1) /\ src[b + 1] = "\n"

\* no byte of [from, to) is a line terminator
NoNewlineIn(from, to) == \A b \in from..(to - 1) : ~IsNewline(b)

ReturnedLineIndex == pc = "returned" /\ call.fn = "line_index_at"
ReturnedLineRange == pc = "returned" /\ call.fn = "line_range_of_span"

\* the span of the call lies inside the source, which has a line
ValidSpanCall ==
    ReturnedLineRange /\ call.span.end <= Len(src) /\ src # <<>>

\* C6 as stated, over the sources that have a line: for every span inside
\* the source, the first line of the range has a full_span that contains
\* span.start and the last line of the range has a full_span that contains
\* span.end - 1.
C6_BoundaryLinesContain ==
    ValidSpanCall =>
        /\ ret.range.some
        /\ contains(lines[ret.range.val.start + 1].full_span, call.span.start)
        /\ contains(lines[ret.range.val.end].full_span, call.span.end - 1)

\* C6 amended: for every span inside a source that has a line, the range is
\* returned; its first line is the last line starting at or before
\* span.start, its last line the last line starting at or before
\* max(span.start, span.end - 1); the full_span of the first (last) line
\* contains span.start (span.end - 1 of a non-empty span) whenever that byte
\* exists and is not a line terminator.
C6_BoundaryLinesStartBy ==
    ValidSpanCall =>
        /\ ret.range.some
        /\ LastLineStartingBy(ret.range.val.start, call.span.start)
        /\ LastLineStartingBy(ret.range.val.end - 1,
              Max(call.span.start, call.span.end - 1))
        /\ (call.span.start < Len(src) /\ ~IsNewline(call.span.start)) =>
              contains(lines[ret.range.val.start + 1].full_span,
                       call.span.start)
        /\ (call.span.start < call.span.end /\ ~IsNewline(call.span.end - 1)) =>
              contains(lines[ret.range.val.end].full_span, call.span.end - 1)

\* an empty span at the start of a later line, right behind a line
\* terminator, has been looked up
C6_Witness ==
    /\ ValidSpanCall /\ ret.range.some
    /\ call.span.start = call.span.end
    /\ call.span.start >= 1
    /\ IsNewline(call.span.start - 1)
    /\ ret.range.val.start >= 1

\* C7: line_range_of_span(span) is [line_index_at(span.start),
\* line_index_at(max(span.start, span.end - 1)) + 1) where both lookups
\* succeed and fails otherwise; a span that ends on the terminator of the
\* line it starts on is a one-line range, a span inside the source that
\* reaches one byte further has a two-line range, and an empty span has a
\* range of length 1 at the line of its start.
C7_LineRangeFormula ==
    ReturnedLineRange =>
        LET span == call.span
            first == line_index_at(span.start)
            last == line_index_at(Max(span.start, span.end - 1))
            range == ret.range
        IN  /\ range.some <=> (first.some /\ last.some)
            /\ range.some =>
                /\ range.val = [start |-> first.val, end |-> last.val + 1]
                /\ (/\ span.start < span.end
                    /\ IsNewline(span.end - 1)
                    /\ NoNewlineIn(span.start, span.end - 1))
                   => range.val.end = range.val.start + 1
                /\ (/\ span.start < span.end - 1
                    /\ span.end <= Len(src)
                    /\ IsNewline(span.end - 2)
                    /\ NoNewlineIn(span.start, span.end - 2))
                   => range.val.end = range.val.start + 2
                /\ span.start = span.end =>
                      /\ range.val.end = range.val.start + 1
                      /\ LastLineStartingBy(range.val.start, span.start)

\* the range of a span that ends on the terminator of a line other than
\* the first and the last has been looked up
C7_Witness ==
    /\ ReturnedLineRange /\ ret.range.some
    /\ call.span.start < call.span.end
    /\ IsNewline(call.span.end - 1)
    /\ NoNewlineIn(call.span.start, call.span.end - 1)
    /\ call.span.end < Len(src)
    /\ ret.range.val.start >= 1

\* C8 as stated: line_index_at succeeds for every offset up to the length
\* of the source, with the last line that starts at or before the offset,
\* and fails exactly when the offset is beyond the length.
C8_SucceedsUpToLen ==
    ReturnedLineIndex =>
        /\ ret.index.some <=> call.index <= Len(src)
        /\ ret.index.some => LastLineStartingBy(ret.index.val, call.index)

\* C8 amended: over a source that has a line (a non-empty text)
\* line_index_at succeeds for every offset up to the length of the source,
\* with the last line that starts at or before the offset, and fails
\* exactly when the offset is beyond the length; over the empty source it
\* fails for every offset.
C8_SucceedsInsideNonEmpty ==
    ReturnedLineIndex =>
        /\ ret.index.some <=> (call.index <= Len(src) /\ src # <<>>)
        /\ ret.index.some => LastLineStartingBy(ret.index.val, call.index)

\* the offset of the start of a later line has been looked up
C8_Witness ==
    /\ ReturnedLineIndex /\ ret.index.some
    /\ ret.index.val >= 1
    /\ lines[ret.index.val + 1].full_span.start = call.index

---------------------------------------------------------------------------
(* Properties of a render, under Spec *)

\* the number of occupied slots
Occupied(slots) == Cardinality({i \in 1..Len(slots) : slots[i].some})

\* the render has ended, normally or with a panic
RenderEnded == pc \in {"done", "panic"}

\* write_to has ended, normally or with a panic
FullRenderEnded == RenderEnded /\ call.fn = "write_to"

\* the descriptor has been built and is being written
Built == pc \notin {"write_to", "emit_events", "source", "returned"}

\* C1: during BodyWriter::write the occupied slots never exceed
\* maximum_parallel_labels and allocate_multiline always finds an empty
\* slot: its expect("has enough slots") never fires.
C1_EnoughSlots ==
    /\ panic_msg # "has enough slots"
    /\ Built => Occupied(writer.slots) <= writer.descriptor.maximum_parallel_labels

\* two labels are in slots at once, all slots are taken, and one of the
\* labels was started on an earlier chunk
C1_Witness ==
    /\ pc = "emit_source_line"
    /\ writer.descriptor.maximum_parallel_labels >= 2
    /\ Occupied(writer.slots) = writer.descriptor.maximum_parallel_labels
    /\ \E i \in 1..Len(writer.slots) :
          writer.slots[i].some /\ ~writer.slots[i].val.recently_added
    /\ \E i \in 1..Len(writer.slots) :
          writer.slots[i].some /\ writer.slots[i].val.recently_added

\* C2: the chunks of emit_events are in strictly increasing line-index
\* order: no line index appears in two chunks.
C2_ChunksIncrease ==
    \A i, j \in 1..Len(builder.result) :
        i < j => builder.result[i].line.index < builder.result[j].line.index

\* three chunks have been emitted, with a jump over an untouched line and
\* a step to the next line
C2_Witness ==
    /\ Len(builder.result) >= 3
    /\ \E i \in 1..(Len(builder.result) - 1) :
          builder.result[i + 1].line.index > builder.result[i].line.index + 1
    /\ \E i \in 1..(Len(builder.result) - 1) :
          builder.result[i + 1].line.index = builder.result[i].line.index + 1

\* the multi-line labels the sweep has started, in the order of their ids
RECURSIVE StartedLabels(_)
StartedLabels(result) ==
    IF result = <<>> THEN <<>>
    ELSE StartedLabels(Front(result)) \o Last(result).starting_multiline_labels

\* C3: a multi-line label with span [s, e) is recorded in the
\* finishing_multiline_labels of exactly the chunk of the line of byte
\* e - 1, the last line of line_range_of_span, also when e is the start of
\* a later line.
C3_FinishOnLastLine ==
    \A i \in 1..Len(builder.result) :
        \A k \in 1..Len(builder.result[i].finishing_multiline_labels) :
            LET id == builder.result[i].finishing_multiline_labels[k]
                label == StartedLabels(builder.result)[id + 1]
            IN  builder.result[i].line.index = line_range(label).val.end - 1

\* the lines with non-empty text among the emitted chunks
NonEmptyChunks(result) ==
    {i \in 1..Len(result) : result[i].line.text # <<>>}

\* C4: whenever an emitted chunk has a line with non-empty text,
\* indent_trim is the minimum indent_size over exactly the emitted chunks
\* whose text is non-empty.
C4_IndentTrimIsMinimum ==
    (Built /\ NonEmptyChunks(builder.result) # {}) =>
        /\ \E i \in NonEmptyChunks(builder.result) :
              writer.descriptor.indent_trim = builder.result[i].line.indent_size
        /\ \A i \in NonEmptyChunks(builder.result) :
              writer.descriptor.indent_trim <= builder.result[i].line.indent_size

\* a filler chunk (no label starts, lies or finishes on it) with
\* non-empty text sets indent_trim, beside a chunk with an empty line
C4_Witness ==
    /\ Built
    /\ \E i \in NonEmptyChunks(builder.result) :
          /\ builder.result[i].singleline_labels = <<>>
          /\ builder.result[i].starting_multiline_labels = <<>>
          /\ builder.result[i].finishing_multiline_labels = <<>>
          /\ builder.result[i].line.indent_size = writer.descriptor.indent_trim
    /\ \E i \in 1..Len(builder.result) : builder.result[i].line.text = <<>>

\* the source-line rows written so far
SourceRows == {i \in 1..Len(out) : out[i].kind = "source"}

\* the line a source-line row shows
RowLine(row) == lines[row.number]

\* C5 as stated: for every emitted chunk the leading space of the source
\* line is indent_size - indent_trim, which is never negative.
C5_LeadingSpace ==
    \A i \in SourceRows :
        /\ out[i].indent = RowLine(out[i]).indent_size
                             - writer.descriptor.indent_trim
        /\ out[i].indent >= 0

\* C5 amended: for every emitted chunk whose line text is non-empty the
\* leading space of the source line is indent_size - indent_trim, which is
\* never negative (the subtraction never underflows); for a chunk whose
\* line text is empty the leading space is 0.
C5_LeadingSpaceOfNonEmpty ==
    /\ panic_msg # "attempt to subtract with overflow"
    /\ \A i \in SourceRows :
          IF out[i].text # <<>>
          THEN /\ out[i].indent = RowLine(out[i]).indent_size
                                    - writer.descriptor.indent_trim
               /\ out[i].indent >= 0
          ELSE out[i].indent = 0

\* a line more indented than another has been written with leading space,
\* behind a line without any
C5_Witness ==
    /\ \E i \in SourceRows : out[i].text # <<>> /\ out[i].indent > 0
    /\ \E i \in SourceRows : out[i].text # <<>> /\ out[i].indent = 0

\* the line of the start of a label
LabelLine(label) == lines[line_index_at(label.span.start).val + 1]

\* a label of a source with a line that starts and ends on one line, at or
\* behind the start of the dedented text
SinglelineInText(label) ==
    /\ line_range(label).some
    /\ is_singleline(label)
    /\ LabelLine(label).dedented_span.start <= label.span.start

\* the row that underlines the label has the offset and the width of the
\* text before and within the span, up to the end of the line
Underlined(label) ==
    \E i \in 1..Len(out) :
        /\ out[i].kind = "singleline"
        /\ out[i].message = label.message
        /\ out[i].before =
              dislay_width(SubSeq(src, LabelLine(label).dedented_span.start + 1,
                                  label.span.start))
        /\ out[i].underline =
              dislay_width(SubSeq(src, label.span.start + 1,
                  Min(label.span.end, LabelLine(label).full_span.end)))

\* the span [k, m) ends on the terminator of the line that holds k
EndsOnTerminator(span) ==
    /\ span.start < span.end
    /\ IsNewline(span.end - 1)
    /\ NoNewlineIn(span.start, span.end - 1)

\* C9: a label [k, m) whose byte m - 1 is the terminator of its line, on
\* any line of the source, is single-line and is underlined from k to the
\* end of the text of the line, without the terminator.
C9_TerminatorExcluded ==
    FullRenderEnded =>
        \A i \in 1..Len(labels) :
            (EndsOnTerminator(labels[i].span) /\ SinglelineInText(labels[i]))
                => Underlined(labels[i])

\* C10: a single-line label [s, e) on a line whose dedented text starts at
\* d <= s is underlined at column display_width(text from d to s), with
\* width display_width(text from s to min(e, line end)).
C10_UnderlinePlacement ==
    FullRenderEnded =>
        \A i \in 1..Len(labels) :
            SinglelineInText(labels[i]) => Underlined(labels[i])

---------------------------------------------------------------------------
(* Properties of the chunks of a finished sweep, under Spec *)

\* build has returned the descriptor of write_to
SweepDone == call.fn = "write_to" /\ pc = "write_header"

\* line n is the line of the first byte of the span
StartLine(n, span) == LastLineStartingBy(n, span.start)

\* line n is the line of byte end - 1 of the span (of its start, when the
\* span is empty)
TerminalLine(n, span) ==
    LastLineStartingBy(n, Max(span.start, span.end - 1))

\* line n is the start line of a label, or lies between the start line
\* and the terminal line of a label that has them on different lines
Touched(n) ==
    \E i \in 1..Len(labels) :
        \E a, b \in 0..(Len(lines) - 1) :
            /\ StartLine(a, labels[i].span)
            /\ TerminalLine(b, labels[i].span)
            /\ a <= n
            /\ n <= b

\* line n has a chunk
Emitted(n) ==
    \E k \in 1..Len(builder.result) : builder.result[k].line.index = n

\* C19: a line of the source has a chunk if and only if it is the start
\* line of a label or lies between the start line and the terminal line
\* (the line of byte end - 1), inclusive, of a multi-line label.
C19_EmittedIffTouched ==
    SweepDone =>
        \A n \in 0..(Len(lines) - 1) : Emitted(n) <=> Touched(n)

\* the places of a label in the chunks: the chunk, the list and the
\* position in the list
Places(label) ==
    {<<k, "singleline_labels", j>> :
        <<k, j>> \in {p \in (1..Len(builder.result)) \X (1..MaxLabels) :
            /\ p[2] <= Len(builder.result[p[1]].singleline_labels)
            /\ builder.result[p[1]].singleline_labels[p[2]] = label}}
    \cup
    {<<k, "starting_multiline_labels", j>> :
        <<k, j>> \in {p \in (1..Len(builder.result)) \X (1..MaxLabels) :
            /\ p[2] <= Len(builder.result[p[1]].starting_multiline_labels)
            /\ builder.result[p[1]].starting_multiline_labels[p[2]] = label}}

\* C20: after the sweep every label is in exactly one place: in the chunk
\* of the line of its span start, in singleline_labels when its start and
\* its byte end - 1 are on the same line and in starting_multiline_labels
\* otherwise.
C20_LabelPlacedOnce ==
    SweepDone =>
        \A i \in 1..Len(labels) :
            /\ Cardinality(Places(labels[i])) = 1
            /\ \A p \in Places(labels[i]) :
                  /\ StartLine(builder.result[p[1]].line.index, labels[i].span)
                  /\ (p[2] = "singleline_labels")
                        <=> TerminalLine(builder.result[p[1]].line.index,
                                         labels[i].span)

\* the sweep has placed a single-line label and a multi-line label that
\* start on the same line, and a chunk without labels
C20_Witness ==
    /\ SweepDone
    /\ \E k \in 1..Len(builder.result) :
          /\ builder.result[k].singleline_labels # <<>>
          /\ builder.result[k].starting_multiline_labels # <<>>
    /\ \E k \in 1..Len(builder.result) :
          /\ builder.result[k].singleline_labels = <<>>
          /\ builder.result[k].starting_multiline_labels = <<>>

---------------------------------------------------------------------------
(* Properties of the descriptor and of the steps of the writer *)

\* write_to has built the descriptor
DescriptorBuilt == call.fn = "write_to" /\ Built

\* the multi-line labels started in the chunks 1..k
RECURSIVE StartsUpTo(_, _)
StartsUpTo(result, k) ==
    IF k = 0 THEN 0
    ELSE StartsUpTo(result, k - 1) + Len(result[k].starting_multiline_labels)

\* the multi-line labels finished in the chunks 1..k
RECURSIVE FinishesUpTo(_, _)
FinishesUpTo(result, k) ==
    IF k = 0 THEN 0
    ELSE FinishesUpTo(result, k - 1) + Len(result[k].finishing_multiline_labels)

\* the labels shown on chunk k: started up to and including k, and not
\* finished before k
ShownOn(result, k) == StartsUpTo(result, k) - FinishesUpTo(result, k - 1)

\* the label has its start and its byte end - 1 on the same line
OnOneLine(label) ==
    \E n \in 0..(Len(lines) - 1) :
        StartLine(n, label.span) /\ TerminalLine(n, label.span)

\* the source row has a glyph in every one of n lanes
FullRow(row, n) ==
    /\ row.kind = "source"
    /\ Len(row.lanes) = n
    /\ \A i \in 1..n : row.lanes[i] # "blank"

\* C21: maximum_parallel_labels is the maximum over the chunks k of the
\* labels started up to and including k minus the labels finished before
\* k; it is 0 when no label is multi-line; and it is exact: a render that
\* has returned with a positive maximum has written a source row in which
\* every slot is occupied.
C21_MaxParallelExact ==
    DescriptorBuilt =>
        LET max == writer.descriptor.maximum_parallel_labels
            result == builder.result
        IN  /\ \A k \in 1..Len(result) : ShownOn(result, k) <= max
            /\ \/ \E k \in 1..Len(result) : ShownOn(result, k) = max
               \/ max = 0
            /\ (\A i \in 1..Len(labels) : OnOneLine(labels[i])) => max = 0
            /\ (pc = "done" /\ max > 0) =>
                  \E i \in 1..Len(out) : FullRow(out[i], max)

\* a render with two slots has returned: a source row has both slots
\* occupied, another source row has an empty slot
C21_Witness ==
    /\ DescriptorBuilt
    /\ pc = "done"
    /\ writer.descriptor.maximum_parallel_labels = 2
    /\ \E i \in 1..Len(out) : FullRow(out[i], 2)
    /\ \E i \in 1..Len(out) :
          /\ out[i].kind = "source"
          /\ \E j \in 1..Len(out[i].lanes) : out[i].lanes[j] = "blank"

\* the number of decimal digits of n >= 1
Digits(n) == CHOOSE d \in 1..9 : 10^(d - 1) <= n /\ n < 10^d

\* C22: line_number_width is the number of decimal digits of the line
\* index of the last chunk plus 1, and 0 when there is no chunk; the writer
\* pads with it, and the 1-based number of every source row written has at
\* most that many digits.
C22_LineNumberWidth ==
    DescriptorBuilt =>
        /\ writer.descriptor.line_number_width =
              IF builder.result = <<>> THEN 0
              ELSE Digits(Last(builder.result).line.index + 1)
        /\ writer.line_number_width = writer.descriptor.line_number_width
        /\ \A i \in 1..Len(out) :
              out[i].kind = "source" =>
                  /\ out[i].number >= 1
                  /\ Digits(out[i].number) <= writer.line_number_width

\* a render has written line 10 after a line with a number of one digit
C22_Witness ==
    /\ DescriptorBuilt
    /\ pc = "done"
    /\ \E i, j \in 1..Len(out) :
          /\ out[i].kind = "source" /\ out[i].number < 10
          /\ out[j].kind = "source" /\ out[j].number = 10

\* a row of the body
BodyRow(row) == row.kind \in {"source", "singleline", "multiline"}

\* what tells a row of the body from the others: for a source row the
\* line number and the number of lanes that show a label starting, for a
\* label row the message of the label
RowKey(row) ==
    IF row.kind = "source"
    THEN <<"source", row.number,
           Cardinality({i \in 1..Len(row.lanes) :
                           row.lanes[i] = "multiline_start"})>>
    ELSE <<row.kind, row.message, 0>>

\* the keys of the body rows written so far
BodyKeys ==
    LET body == SelectSeq(out, BodyRow)
    IN  [i \in 1..Len(body) |-> RowKey(body[i])]

\* the keys of the rows of chunk k of the sweep: the source row with the
\* labels starting on it, a row for each single-line label, a closing row
\* for each finishing label
ChunkKeys(result, k) ==
    <<<<"source", result[k].line.index + 1,
        Len(result[k].starting_multiline_labels)>>>>
    \o [j \in 1..Len(result[k].singleline_labels) |->
            <<"singleline", result[k].singleline_labels[j].message, 0>>]
    \o [j \in 1..Len(result[k].finishing_multiline_labels) |->
            <<"multiline",
              StartedLabels(result)
                  [result[k].finishing_multiline_labels[j] + 1].message, 0>>]

\* the keys of the rows of the chunks 1..k
RECURSIVE ChunksKeys(_, _)
ChunksKeys(result, k) ==
    IF k = 0 THEN <<>>
    ELSE ChunksKeys(result, k - 1) \o ChunkKeys(result, k)

IsPrefix(s, t) == Len(s) <= Len(t) /\ s = SubSeq(t, 1, Len(s))

\* C23: the body is written chunk by chunk in the order of the sweep, and
\* for each chunk in a fixed order: the slots of the labels starting on
\* the chunk are allocated before its one source row, which shows them
\* starting; then comes one row per single-line label of the chunk, then
\* one closing row per finishing multi-line label.
C23_FixedOrder ==
    DescriptorBuilt =>
        LET expected == ChunksKeys(builder.result, Len(builder.result))
        IN  /\ IsPrefix(BodyKeys, expected)
            /\ pc \in {"write_footnotes", "done"} => BodyKeys = expected

\* a render has returned after a source row with a starting label and,
\* on a later chunk, a source row, a single-line row and a closing row
C23_Witness ==
    /\ DescriptorBuilt
    /\ pc = "done"
    /\ \E i, j \in 1..Len(out) :
          /\ i < j
          /\ out[i].kind = "source"
          /\ \E l \in 1..Len(out[i].lanes) : out[i].lanes[l] = "multiline_start"
          /\ out[j].kind = "source"
          /\ j + 2 <= Len(out)
          /\ out[j + 1].kind = "singleline"
          /\ out[j + 2].kind = "multiline"

---------------------------------------------------------------------------
(* Properties of the lines of a text and of dedent, under TextSpec *)

\* Source::new has returned
Indexed == pc = "source" /\ call.fn = "Source::new"

\* byte b of the source belongs to a line terminator: it is a line feed,
\* or a carriage return just before a line feed
IsTerminator(b) ==
    /\ b \in 0..(Len(src) - 1)
    /\ \/ src[b + 1] = "\n"
       \/ src[b + 1] = "\r" /\ b + 2 <= Len(src) /\ src[b + 2] = "\n"

\* C24: Source::new gives the lines the indices 0, 1, 2, ... in the order
\* of their byte offsets; their full spans are pairwise disjoint and hold
\* no byte of a line terminator; the dedented span of a line ends where
\* its full span ends and starts inside it; an empty line has an empty
\* span at its own offset, the start of the text or the byte behind a
\* line feed.
C24_LinesIndexed ==
    Indexed =>
        /\ \A i \in 1..Len(lines) : lines[i].index = i - 1
        /\ \A i, j \in 1..Len(lines) :
              i < j => /\ lines[i].full_span.start < lines[j].full_span.start
                       /\ lines[i].full_span.end <= lines[j].full_span.start
        /\ \A i \in 1..Len(lines) :
              LET full == lines[i].full_span
                  dedented == lines[i].dedented_span
              IN  /\ full.start <= full.end
                  /\ full.end <= Len(src)
                  /\ \A b \in full.start..(full.end - 1) : ~IsTerminator(b)
                  /\ dedented.end = full.end
                  /\ full.start <= dedented.start
                  /\ dedented.start <= full.end
                  /\ full.start = 0 \/ src[full.start] = "\n"
                  /\ full.end = Len(src) \/ IsTerminator(full.end)
                  /\ full.start = full.end => dedented = full

\* Source::new has indexed a text with a line that ends in a carriage
\* return and a line feed, an empty line behind it and an indented line
C24_Witness ==
    /\ Indexed
    /\ \E i \in 1..Len(lines) :
          /\ lines[i].full_span.start < lines[i].full_span.end
          /\ lines[i].full_span.end + 2 <= Len(src)
          /\ src[lines[i].full_span.end + 1] = "\r"
    /\ \E i \in 1..Len(lines) :
          /\ lines[i].full_span.start = lines[i].full_span.end
          /\ lines[i].full_span.start > 0
    /\ \E i \in 1..Len(lines) :
          /\ lines[i].dedented_span.start > lines[i].full_span.start
          /\ lines[i].dedented_span.start < lines[i].full_span.end

\* dedent has returned
Dedented == pc = "returned" /\ call.fn = "dedent"

\* the character at offset i is a tab, or a space that no combining mark
\* joins
Blank(i) ==
    /\ i < Len(src)
    /\ \/ src[i + 1] = "\t"
       \/ src[i + 1] = " " /\ (i + 2 <= Len(src) => src[i + 2] # "+")

\* the width of the first n characters, spaces and tabs
RECURSIVE BlankWidth(_)
BlankWidth(n) ==
    IF n = 0 THEN 0
    ELSE BlankWidth(n - 1) + (IF src[n] = "\t" THEN 4 ELSE 1)

\* C25: dedent(s) returns the offset of the first character (grapheme)
\* that is neither a space nor a tab, the width of the run before it with
\* a space counted as 1 and a tab as 4, and the slice from that offset on;
\* for an empty or all-whitespace s that is the length of s, the width of
\* all of s and the empty slice.
C25_Dedent ==
    Dedented =>
        LET d == ret.dedent
        IN  /\ d.offset \in 0..Len(src)
            /\ \A i \in 0..(d.offset - 1) : Blank(i)
            /\ ~Blank(d.offset)
            /\ d.width = BlankWidth(d.offset)
            /\ d.text = SubSeq(src, d.offset + 1, Len(src))
            /\ (\A i \in 1..Len(src) : src[i] \in {" ", "\t"}) =>
                  d.offset = Len(src) /\ d.text = <<>>

\* dedent has stripped a space and a tab from before a letter
C25_Witness ==
    /\ Dedented
    /\ ret.dedent.offset = 2
    /\ ret.dedent.width = 5
    /\ ret.dedent.text # <<>>
    /\ ret.dedent.text[1] = "a"

---------------------------------------------------------------------------
(* Properties of SourceSpan::new, under SourceSpec *)

\* C17: SourceSpan::new(start, end) panics when end < start and returns no
\* span; a span it returns has start <= end and a len() of end - start
\* without wrap-around; the spans the labels of a diagnostic are drawn
\* from are spans it returns.
C17_SpanOrdered ==
    /\ call.fn = "SourceSpan::new" =>
          /\ call.span.end < call.span.start =>
                pc = "panic" /\ ~ret.span.some
          /\ ret.span.some =>
                /\ ret.span.val = call.span
                /\ ret.span.val.start <= ret.span.val.end
                /\ ~SourceSpan_len(ret.span.val).overflow
                /\ SourceSpan_len(ret.span.val).val
                      = ret.span.val.end - ret.span.val.start
    /\ \A s \in Spans(Len(src) + 1) :
          SourceSpan_new(s.start, s.end).span = Some(s)

\* SourceSpan::new has been called with an end before the start
C17_Witness ==
    /\ call.fn = "SourceSpan::new"
    /\ call.span.end < call.span.start
    /\ call.span.start # U32_MAX
    /\ pc = "panic"

---------------------------------------------------------------------------
(* Properties of a render to a failing sink, under SinkSpec *)

\* C18: when a write to the sink fails during write_to, in the header, a
\* body row or the footnotes, the render returns the error at once: the
\* sink is asked for no write after the one it refused, and a render that
\* has not returned the error has met no failure.
C18_FailFast ==
    /\ sink.refused <= 1
    /\ sink.failed <=> sink.refused = 1
    /\ sink.failed <=> pc = "io_error"

\* write_to has returned the error of a sink that failed behind a source
\* row
C18_Witness ==
    /\ call.fn = "write_to"
    /\ pc = "io_error"
    /\ sink.refused = 1
    /\ out # <<>>
    /\ out[Len(out)].kind = "source"

---------------------------------------------------------------------------
(* Properties of the compact render, under Spec *)

\* write_to_compact has returned Ok
CompactDone == pc = "done" /\ call.fn = "write_to_compact"

\* the rows between the header and the footnotes
CompactBody == SubSeq(out, 2, Len(out) - 2)

\* the row is the compact line of the label: "[line n]" when the last line
\* starting at or before the start of the span is also the last line
\* starting at or before its last byte, "[lines n..m + 1]" otherwise
CompactLineOf(row, label) ==
    /\ row.message = label.message
    /\ \E n, m \in 0..(Len(lines) - 1) :
          /\ LastLineStartingBy(n, label.span.start)
          /\ LastLineStartingBy(m, Max(label.span.start, label.span.end - 1))
          /\ row.number = n
          /\ IF n = m
             THEN row.kind = "compact_line"
             ELSE row.kind = "compact_lines" /\ row.underline = m + 1

\* C15: write_to_compact writes one body line per label, in the order the
\* labels were added: "[line N]" when the line range of the label has one
\* line, "[lines N..M]" with M the exclusive end of the range otherwise;
\* the line is "[line N]" exactly when is_singleline, which the full
\* layout uses, holds of the label.
C15_CompactLines ==
    CompactDone =>
        /\ Len(CompactBody) = Len(labels)
        /\ \A i \in 1..Len(labels) :
              /\ CompactLineOf(CompactBody[i], labels[i])
              /\ (CompactBody[i].kind = "compact_line")
                    <=> is_singleline(labels[i])

\* a compact render of a multi-line label added before a single-line label
\* that starts before it
C15_Witness ==
    /\ CompactDone
    /\ Len(labels) = 2
    /\ labels[2].span.start < labels[1].span.start
    /\ CompactBody[1].kind = "compact_lines"
    /\ CompactBody[2].kind = "compact_line"

---------------------------------------------------------------------------
(* Properties of labels that leave the source, under StraySpec *)

\* the start or the last byte of the span is an offset behind the source,
\* or the source has no line at all
OffSource(span) ==
    \/ lines = <<>>
    \/ span.start > Len(src)
    \/ span.end - 1 > Len(src)

\* C16: when the start or end - 1 of some label is behind the length of
\* the source, or the source has no lines, write_to never returns Ok and
\* never ends with an error value either: when it ends, it has panicked.
C16_StrayLabelPanics ==
    (call.fn = "write_to" /\ \E i \in 1..Len(labels) : OffSource(labels[i].span))
        => /\ pc # "done"
           /\ Ended => pc = "panic"

\* write_to has panicked on a label behind the source that came after a
\* label inside a source with lines
C16_Witness ==
    /\ call.fn = "write_to"
    /\ pc = "panic"
    /\ Len(labels) = 2
    /\ ~OffSource(labels[1].span)
    /\ labels[2].span.start <= Len(src)
    /\ labels[2].span.end - 1 > Len(src)
    /\ builder.result # <<>>

---------------------------------------------------------------------------
(* Properties of the lanes of multi-line labels, under LaneSpec *)

\* the slot whose label a closing row closes: the column of its connector
ClosedSlot(row) ==
    CHOOSE i \in 1..Len(row.lanes) : row.lanes[i] = "connection_top_to_right"

\* rows i and i + 1 of the output are closing rows, so of the same chunk
ClosingPair(i) ==
    /\ i \in 1..(Len(out) - 1)
    /\ out[i].kind = "multiline"
    /\ out[i + 1].kind = "multiline"

\* C11: when several multi-line labels finish on the same chunk, their
\* closing rows are emitted in ascending slot-index order, also when a
\* later-started label reuses a lower slot freed earlier.
C11_ClosingInSlotOrder ==
    \A i \in 1..(Len(out) - 1) :
        ClosingPair(i) => ClosedSlot(out[i]) < ClosedSlot(out[i + 1])

\* the step closes the label of slot i: the slot is emptied and the
\* closing row of its label is the one row written
ClosesSlot(i) ==
    /\ ~writer'.slots[i].some
    /\ Len(out') = Len(out) + 1
    /\ out'[Len(out')].kind = "multiline"
    /\ ClosedSlot(out'[Len(out')]) = i
    /\ out'[Len(out')].message = writer.slots[i].val.label.message

\* C12: a multi-line label placed in slot i stays in slot i, and no other
\* label occupies slot i, from its allocation until its closing row has
\* been emitted; the length of the slot vector never changes in a render.
C12_SlotsStable ==
    [][(Built /\ Built') =>
          /\ Len(writer'.slots) = Len(writer.slots)
          /\ \A i \in 1..Len(writer.slots) :
                writer.slots[i].some =>
                    \/ /\ writer'.slots[i].some
                       /\ writer'.slots[i].val.label_id
                             = writer.slots[i].val.label_id
                       /\ writer'.slots[i].val.label = writer.slots[i].val.label
                    \/ ClosesSlot(i)
          /\ \A i, j \in 1..Len(writer'.slots) :
                (i # j /\ writer'.slots[i].some /\ writer'.slots[j].some)
                    => writer'.slots[i].val.label_id
                          # writer'.slots[j].val.label_id]_vars

\* a label has kept its slot over a row while a label started later sits
\* in a lower slot, one that an earlier label left
C12_Witness ==
    /\ pc = "emit_singleline_labels"
    /\ \E i, j \in 1..Len(writer.slots) :
          /\ i < j
          /\ writer.slots[i].some /\ writer.slots[j].some
          /\ writer.slots[i].val.label_id > writer.slots[j].val.label_id
          /\ \E k \in 1..Len(out) :
                out[k].kind = "multiline" /\ ClosedSlot(out[k]) = i

\* the diagnostic has two labels and the line range of the second lies
\* strictly inside the line range of the first
NestedPair ==
    /\ Len(labels) = 2
    /\ line_range(labels[1]).some /\ line_range(labels[2]).some
    /\ line_range(labels[1]).val.start < line_range(labels[2]).val.start
    /\ line_range(labels[2]).val.end < line_range(labels[1]).val.end

\* the index in the output of the closing row of the label with a message
ClosingRowOf(message) ==
    CHOOSE k \in 1..Len(out) :
        out[k].kind = "multiline" /\ out[k].message = message

\* the nested pair has been rendered in full
NestedPairDone ==
    NestedPair /\ pc = "done" /\ call.fn = "write_to"

\* the outer label is in slot 0 and the inner label in slot 1 of 2
NestedSlots ==
    /\ writer.descriptor.maximum_parallel_labels = 2
    /\ ClosedSlot(out[ClosingRowOf(1)]) = 1
    /\ ClosedSlot(out[ClosingRowOf(2)]) = 2

\* C13 as stated: for two multi-line labels where the line range of the
\* second is strictly nested inside that of the first,
\* maximum_parallel_labels is 2, the outer label occupies slot 0, the
\* inner slot 1, and the closing row of the inner label draws a crossing
\* glyph in the column of slot 0.
C13_NestedCrossing ==
    NestedPairDone =>
        /\ NestedSlots
        /\ out[ClosingRowOf(2)].lanes[1] = "multiline_crossing"

\* C13 amended: for such a pair maximum_parallel_labels is 2, the outer
\* label occupies slot 0 and the inner slot 1; the closing row of the inner
\* label draws no crossing glyph in the column of slot 0: it draws a
\* vertical bar there when it is written before the closing row of the
\* outer label, and a blank when the outer label was closed before it on
\* the same chunk, where the closing row of the outer label draws the
\* crossing glyph in the column of slot 1.
C13_NestedVerticalBar ==
    NestedPairDone =>
        /\ NestedSlots
        /\ IF ClosingRowOf(2) < ClosingRowOf(1)
           THEN /\ out[ClosingRowOf(2)].lanes = <<"vertical_bar",
                                                  "connection_top_to_right">>
                /\ out[ClosingRowOf(1)].lanes = <<"connection_top_to_right",
                                                  "blank">>
           ELSE /\ ClosingRowOf(2) = ClosingRowOf(1) + 1
                /\ out[ClosingRowOf(1)].lanes = <<"connection_top_to_right",
                                                  "multiline_crossing">>
                /\ out[ClosingRowOf(2)].lanes = <<"blank",
                                                  "connection_top_to_right">>

\* a nested pair is rendered and the inner label closes on a line before
\* the line the outer label closes on
C13_Witness ==
    /\ NestedPairDone
    /\ ClosingRowOf(2) < ClosingRowOf(1)
    /\ \E k \in ClosingRowOf(2)..ClosingRowOf(1) : out[k].kind = "source"

---------------------------------------------------------------------------
(* Properties of two renders of one diagnostic, under TwiceSpec *)

\* the second render has ended, and it was the same call as the first
SecondEnded == prior.ended /\ Ended /\ call.fn = prior.fn

\* C14: two runs of write_to on the same source, labels and config end the
\* same way with identical chunk sequences, identical slot assignments (the
\* slot of each closing row, and the slots left at the end) and identical
\* output; nothing of the first render reaches the second.
C14_Deterministic ==
    SecondEnded =>
        /\ pc = prior.pc
        /\ panic_msg = prior.panic_msg
        /\ out = prior.out
        /\ call.fn = "write_to" =>
              /\ builder.result = prior.result
              /\ writer.slots = prior.slots

\* write_to has rendered a diagnostic with a multi-line label twice
C14_Witness ==
    /\ SecondEnded
    /\ call.fn = "write_to"
    /\ pc = "done"
    /\ \E k \in 1..Len(out) : out[k].kind = "multiline"
    /\ \E k \in 1..Len(out) : out[k].kind = "singleline"

\* slot i is the j-th empty slot from the left
NthEmpty(slots, i, j) ==
    /\ i \in 1..Len(slots)
    /\ ~slots[i].some
    /\ Cardinality({m \in 1..(i - 1) : ~slots[m].some}) = j - 1

\* the step is start_multiline_labels on the next chunk, without a panic
StartsLabels == AtLoopHead /\ chunks # <<>> /\ pc' = "emit_source_line"

\* C27: start_multiline_labels puts the j-th label of
\* starting_multiline_labels into the j-th lowest slot that is empty before
\* the step, which is the lowest empty slot at the moment the label is
\* allocated, marked as recently added and with the next id; the other
\* slots are left as they are.
C27_LowestEmptySlot ==
    [][StartsLabels =>
          LET starting == Head(chunks).starting_multiline_labels
              before == writer.slots
              after == writer'.slots
          IN  /\ Len(after) = Len(before)
              /\ \A j \in 1..Len(starting) :
                    \E i \in 1..Len(before) :
                        /\ NthEmpty(before, i, j)
                        /\ after[i] = Some([label_id |-> writer.multiline_id + j - 1,
                                            label |-> starting[j],
                                            recently_added |-> TRUE])
              /\ \A i \in 1..Len(before) :
                    \/ after[i] = before[i]
                    \/ \E j \in 1..Len(starting) : NthEmpty(before, i, j)
      ]_vars

\* a label has just been put into slot 0, which an earlier label had left,
\* while an older label is in slot 1
C27_Witness ==
    /\ pc = "emit_source_line"
    /\ Len(writer.slots) >= 2
    /\ writer.slots[1].some
    /\ writer.slots[1].val.recently_added
    /\ writer.slots[2].some
    /\ ~writer.slots[2].val.recently_added
    /\ writer.slots[1].val.label_id > writer.slots[2].val.label_id

\* a row with the indicators of the slots: a source row or the row of a
\* single-line label
IndicatorRow(row) == row.kind \in {"source", "singleline"}

\* the rows with indicators written so far
IndicatorRows == SelectSeq(out, IndicatorRow)

\* the number of lanes of the row that show the glyph
Showing(row, glyph) ==
    Cardinality({i \in 1..Len(row.lanes) : row.lanes[i] = glyph})

\* the chunk of the i-th row with indicators: the chunk of the last source
\* row up to it
ChunkOfRow(rows, i) ==
    LET at == CHOOSE j \in 1..i :
                  /\ rows[j].kind = "source"
                  /\ \A m \in (j + 1)..i : rows[m].kind # "source"
    IN  CHOOSE k \in 1..Len(builder.result) :
            builder.result[k].line.index + 1 = rows[at].number

\* the glyph next may follow the glyph glyph in a lane, from one row with
\* indicators to the next, row being the second of the two: a label starts
\* in an empty lane, runs as a vertical bar and ends, on the rows of one
\* chunk
Follows(glyph, next, row) ==
    \/ glyph = "blank" /\ next \in {"blank", "multiline_start"}
    \/ glyph = "multiline_start" /\ next \in {"vertical_bar", "multiline_end"}
    \/ glyph = "vertical_bar" /\ next \in {"vertical_bar", "multiline_end"}
    \/ glyph = "multiline_end" /\ next = "multiline_end" /\ row.kind = "singleline"
    \/ /\ glyph = "multiline_end"
       /\ next \in {"blank", "multiline_start"}
       /\ row.kind = "source"

\* C28: in the source rows and the rows of single-line labels, the lane of
\* a multi-line label shows the start glyph once, on the source row of the
\* chunk on which the label starts (and the slot is then no longer recently
\* added), a vertical bar on every later such row up to the chunk on which
\* the label finishes, and the end glyph on the rows of that chunk.
C28_LaneGlyphs ==
    DescriptorBuilt =>
        LET rows == IndicatorRows
            result == builder.result
        IN  /\ \A i \in 1..Len(rows) :
                  LET k == ChunkOfRow(rows, i)
                      starting == Len(result[k].starting_multiline_labels)
                      finishing == Len(result[k].finishing_multiline_labels)
                  IN  /\ Len(rows[i].lanes)
                            = writer.descriptor.maximum_parallel_labels
                      /\ Showing(rows[i], "multiline_start") =
                            IF rows[i].kind = "source" THEN starting ELSE 0
                      /\ Showing(rows[i], "multiline_end") = finishing
                      /\ Showing(rows[i], "vertical_bar") =
                            ShownOn(result, k) - finishing
                            - (IF rows[i].kind = "source" THEN starting ELSE 0)
            /\ \A l \in 1..writer.descriptor.maximum_parallel_labels :
                  /\ rows # <<>> =>
                        rows[1].lanes[l] \in {"blank", "multiline_start"}
                  /\ \A i \in 1..(Len(rows) - 1) :
                        Follows(rows[i].lanes[l], rows[i + 1].lanes[l],
                                rows[i + 1])
            /\ pc \in {"emit_singleline_labels", "finish_multiline_labels",
                        "write_footnotes", "done"} =>
                  \A l \in 1..Len(writer.slots) :
                      writer.slots[l].some => ~writer.slots[l].val.recently_added

\* a render has returned after the row of a single-line label beside the
\* vertical bar of a multi-line label and a source row with its end glyph
C28_Witness ==
    /\ DescriptorBuilt
    /\ pc = "done"
    /\ \E i \in 1..Len(out) :
          out[i].kind = "singleline" /\ Showing(out[i], "vertical_bar") = 1
    /\ \E i \in 1..Len(out) :
          out[i].kind = "source" /\ Showing(out[i], "multiline_end") = 1

\* the lanes of the closing row of slot c over the slots as they are
\* before the row, with a glyph for the empty slots right of c
ClosingLanes(slots, c, filler) ==
    [i \in 1..Len(slots) |->
        IF i < c THEN (IF slots[i].some THEN "vertical_bar" ELSE "blank")
        ELSE IF i = c THEN "connection_top_to_right"
        ELSE (IF slots[i].some THEN "multiline_crossing" ELSE filler)]

\* every step that writes the closing row of a slot c writes these lanes,
\* empties slot c and leaves the other slots as they are
ClosingRowsShow(filler) ==
    \A c \in 1..Len(writer'.slots) :
        ClosesSlot(c) =>
            /\ out'[Len(out')].lanes = ClosingLanes(writer.slots, c, filler)
            /\ writer'.slots = [writer.slots EXCEPT ![c] = None]
            /\ SubSeq(out', 1, Len(out)) = out

\* C29: on the closing row of the label in slot c every slot left of c
\* shows a vertical bar if occupied and blank if empty, slot c shows the
\* corner connector, every slot right of c shows a crossing glyph if
\* occupied and a horizontal filler glyph if empty; after the row slot c
\* is empty and all other slots are unchanged.
C29_ClosingRowFiller ==
    [][ClosingRowsShow("horizontal_bar")]_vars

\* what emit_multiline_label writes: the same row, with a blank in the
\* empty slots right of c
ClosingRowBlank ==
    [][ClosingRowsShow("blank")]_vars

\* a closing row has been written that has an empty slot right of the
\* slot it closes
ClosingRowGap ==
    \E k \in 1..Len(out) :
        /\ out[k].kind = "multiline"
        /\ \E i \in 1..Len(out[k].lanes) :
              i > ClosedSlot(out[k]) /\ out[k].lanes[i] = "blank"

---------------------------------------------------------------------------
(* Properties of the ids of the multi-line labels, under LaneSpec *)

\* the chunk whose starting_multiline_labels holds the label with an id,
\* the ids counted 0, 1, 2, ... over the chunks in their order
StartChunk(result, id) ==
    CHOOSE k \in 1..Len(result) :
        StartsUpTo(result, k - 1) <= id /\ id < StartsUpTo(result, k)

\* the places of an id in the finishing_multiline_labels of the chunks
FinishingPlaces(result, id) ==
    {p \in (1..Len(result)) \X (1..MaxLaneLabels) :
        /\ p[2] <= Len(result[p[1]].finishing_multiline_labels)
        /\ result[p[1]].finishing_multiline_labels[p[2]] = id}

\* the ids of the labels that are active in the sweep
ActiveIds(b) == {b.active_labels[i][1] : i \in 1..Len(b.active_labels)}

\* C30: multi-line labels receive the ids 0, 1, 2, ... in the order in
\* which the sweep starts them; an id is in the finishing_multiline_labels
\* of no chunk while its label is active and of exactly one chunk from
\* then on, and that chunk comes strictly after the chunk in which the
\* label starts: the chunk of the line that line_index_at gives for the
\* end of the span of that label.
C30_IdsStartThenFinish ==
    pc # "panic" =>
        LET result == builder.result
            started == StartedLabels(result)
        IN  /\ builder.multiline_id = Len(started)
            /\ \A i \in 1..Len(builder.active_labels) :
                  LET a == builder.active_labels[i]
                  IN  /\ a[1] \in 0..(Len(started) - 1)
                      /\ started[a[1] + 1].span = a[2]
                      /\ \A j \in 1..(i - 1) :
                            builder.active_labels[j][1] < a[1]
            /\ \A id \in 0..(Len(started) - 1) :
                  IF id \in ActiveIds(builder)
                  THEN FinishingPlaces(result, id) = {}
                  ELSE /\ Cardinality(FinishingPlaces(result, id)) = 1
                       /\ \A p \in FinishingPlaces(result, id) :
                             /\ StartChunk(result, id) < p[1]
                             /\ line_index_at(started[id + 1].span.end).val
                                   = result[p[1]].line.index
            /\ \A k \in 1..Len(result) :
                  \A i \in 1..Len(result[k].finishing_multiline_labels) :
                      result[k].finishing_multiline_labels[i]
                          \in 0..(Len(started) - 1)

\* a render has ended in which three labels started on two chunks, and
\* the label with id 0 finishes on a later chunk than the label with id 1
C30_Witness ==
    /\ pc = "done"
    /\ call.fn = "write_to"
    /\ Len(StartedLabels(builder.result)) = 3
    /\ StartChunk(builder.result, 0) < StartChunk(builder.result, 1)
    /\ \E p \in FinishingPlaces(builder.result, 0) :
          \E q \in FinishingPlaces(builder.result, 1) : q[1] < p[1]

---------------------------------------------------------------------------
(* Properties of the single-line labels of a line *)

\* the single-line labels of the chunks 1..k, in the order of the chunks
\* and of their lists
RECURSIVE SinglelineListed(_, _)
SinglelineListed(result, k) ==
    IF k = 0 THEN <<>>
    ELSE SinglelineListed(result, k - 1) \o result[k].singleline_labels

\* the labels of the rows of single-line labels, in the order of the rows
SinglelineRendered ==
    LET rows == SelectSeq(out, LAMBDA row : row.kind = "singleline")
    IN  [i \in 1..Len(rows) |-> labels[rows[i].message]]

\* the labels of the diagnostic that start on line n and have their byte
\* end - 1 on it too
SinglelineOn(n) ==
    {labels[i] : i \in {j \in 1..Len(labels) :
        StartLine(n, labels[j].span) /\ TerminalLine(n, labels[j].span)}}

\* C31: all single-line labels on the same line, overlapping or not, are
\* retained in that line's chunk, none merged or dropped, and they are
\* listed and rendered in ascending order of span start: the rows of the
\* single-line labels of a render that ends are the labels of the lists,
\* in their order.
C31_SinglelineRetainedInOrder ==
    /\ DescriptorBuilt =>
          \A k \in 1..Len(builder.result) :
              LET listed == builder.result[k].singleline_labels
              IN  /\ {listed[i] : i \in 1..Len(listed)}
                        = SinglelineOn(builder.result[k].line.index)
                  /\ Len(listed)
                        = Cardinality(SinglelineOn(builder.result[k].line.index))
                  /\ \A i, j \in 1..Len(listed) :
                        i < j => listed[i].span.start <= listed[j].span.start
    /\ (call.fn = "write_to" /\ pc = "done") =>
          SinglelineRendered
              = SinglelineListed(builder.result, Len(builder.result))

\* a render has ended that has written the rows of two single-line labels
\* of one line that overlap, the label added first starting behind the
\* label added second
C31_Witness ==
    /\ call.fn = "write_to"
    /\ pc = "done"
    /\ Len(labels) = 2
    /\ Len(SinglelineRendered) = 2
    /\ labels[1].span.start > labels[2].span.start
    /\ labels[1].span.start < labels[2].span.end
    /\ labels[1].span.start < labels[1].span.end
    /\ \E k \in 1..Len(builder.result) :
          Len(builder.result[k].singleline_labels) = 2

---------------------------------------------------------------------------
(* Properties of the width of the lanes *)

\* C32: every row the writer emits (source-line row, single-line-label
\* row, closing row) draws exactly two columns per slot for all
\* maximum_parallel_labels slots before the text area, so the lane area
\* has the same width on every row of a render.
C32_LaneWidth ==
    DescriptorBuilt =>
        \A i \in 1..Len(out) :
            BodyRow(out[i]) =>
                /\ Len(out[i].lanes) = writer.descriptor.maximum_parallel_labels
                /\ Len(lanes_text(out[i].lanes))
                      = 2 * writer.descriptor.maximum_parallel_labels

\* a render with two slots has written source rows and the closing row of
\* the first of the two slots while the second was occupied
C32_Witness ==
    /\ DescriptorBuilt
    /\ writer.descriptor.maximum_parallel_labels = 2
    /\ \E i, k \in 1..Len(out) :
          /\ out[i].kind = "source"
          /\ out[i].lanes = <<"multiline_start", "multiline_start">>
          /\ out[k].kind = "multiline"
          /\ out[k].lanes = <<"connection_top_to_right", "multiline_crossing">>

---------------------------------------------------------------------------
(* Properties of the end of the sweep *)

\* the panics of the sweep
SweepPanics ==
    {"label span is valid", "valid line", "valid label",
     "label should have span in range"}

\* write_to is in its sweep or behind it, over a source that is not empty
SweepOfNonEmpty == src # <<>> /\ call.fn = "write_to"

\* what holds of the sweep in every state: no panic of its own, no more
\* turns of the loop than lines, the current line is a line of the source,
\* and behind the loop no label is left over or active
SweepBounded ==
    SweepOfNonEmpty =>
        /\ ~(pc = "panic" /\ panic_msg \in SweepPanics)
        /\ Len(builder.result) <= Len(lines)
        /\ builder.current_line < Len(lines)
        /\ (Built /\ pc # "panic") =>
              builder.labels = <<>> /\ builder.active_labels = <<>>

\* a step from the loop of emit_events is a turn that adds one chunk, or
\* the exit of the loop with nothing left to do
SweepTurn ==
    (SweepOfNonEmpty /\ pc = "emit_events") =>
        \/ /\ pc' = "emit_events"
           /\ HasEvents(builder)
           /\ Len(builder'.result) = Len(builder.result) + 1
        \/ /\ pc' = "write_header"
           /\ ~HasEvents(builder)
           /\ builder' = builder

\* C33: for every label set whose spans lie inside a non-empty source the
\* sweep terminates: every turn of the loop of emit_events adds a chunk
\* and there are never more chunks than lines, so the loop exits after at
\* most as many iterations as the source has lines; it exits with no
\* unconsumed label and no active multi-line label, and it never looks up
\* a line index past the last line.
C33_SweepTerminates ==
    /\ []SweepBounded
    /\ [][SweepTurn]_vars

\* the sweep has ended after as many turns as the source has lines, more
\* than two, with a multi-line label finished on the last line
C33_Witness ==
    /\ SweepOfNonEmpty
    /\ SweepDone
    /\ Len(lines) > 2
    /\ Len(builder.result) = Len(lines)
    /\ builder.result[Len(builder.result)].finishing_multiline_labels # <<>>

---------------------------------------------------------------------------
(* Properties of the ids of the writer *)

\* the occupied slots that hold the label with an id
SlotsOf(label_id) ==
    {i \in 1..Len(writer.slots) :
        writer.slots[i].some /\ writer.slots[i].val.label_id = label_id}

\* emit_multiline_label is about to run on the next finishing label
Closing ==
    /\ DescriptorBuilt
    /\ pc = "finish_multiline_labels"
    /\ chunk.finishing_multiline_labels # <<>>

\* C34: the id the writer's own counter gives a label in
\* allocate_multiline equals the id the builder gave that label, so every
\* id in a chunk's finishing_multiline_labels matches exactly one occupied
\* slot when emit_multiline_label runs, and finished_multiline.unwrap()
\* never fails.
C34_WriterIdsMatch ==
    DescriptorBuilt =>
        /\ \A i \in 1..Len(writer.slots) :
              writer.slots[i].some =>
                  /\ writer.slots[i].val.label_id
                        < Len(StartedLabels(builder.result))
                  /\ writer.slots[i].val.label
                        = StartedLabels(builder.result)
                              [writer.slots[i].val.label_id + 1]
        /\ Closing =>
              \A k \in 1..Len(chunk.finishing_multiline_labels) :
                  Cardinality(SlotsOf(chunk.finishing_multiline_labels[k])) = 1
        /\ panic_msg # "called Option::unwrap() on a None value"

\* emit_multiline_label is about to close a label whose id is not the
\* index of its slot: the label took a slot that an earlier label left
C34_Witness ==
    /\ Closing
    /\ \E i \in SlotsOf(Head(chunk.finishing_multiline_labels)) :
          /\ writer.slots[i].val.label_id > i - 1
          /\ \E j \in 1..Len(writer.slots) : j > i /\ writer.slots[j].some

---------------------------------------------------------------------------
(* Properties of the byte ranges of emit_singleline_labels *)

\* emit_singleline_labels is about to run on the labels of the chunk
Underlining ==
    /\ call.fn = "write_to"
    /\ pc = "emit_singleline_labels"
    /\ chunk.singleline_labels # <<>>

\* the two subtractions for a label of a line do not underflow, and the
\* two ranges lie inside the text of the line
RangesInside(line, label) ==
    /\ label.span.start >= line.dedented_span.start
    /\ Min(label.span.end, Len(line.text)) >= line.dedented_span.start
    /\ before_underline_range(line, label).end <= Len(line.text)
    /\ underline_range(line, label).start <= underline_range(line, label).end
    /\ underline_range(line, label).end <= Len(line.text)

\* C35: for every single-line label the unsigned subtractions in
\* emit_singleline_labels (span.start - dedented_span.start, and
\* min(span.end, text.len()) - dedented_span.start) never underflow and
\* the resulting byte ranges lie inside the line text, including for
\* labels on lines that do not begin at byte 0 and for labels that start
\* inside the line's indentation.
C35_RangesInsideLine ==
    Underlining =>
        \A k \in 1..Len(chunk.singleline_labels) :
            RangesInside(chunk.line, chunk.singleline_labels[k])

\* the render has panicked in emit_singleline_labels on a label of a line
\* that does not begin at byte 0
UnderflowBehindFirstLine ==
    /\ call.fn = "write_to"
    /\ pc = "panic"
    /\ panic_msg = "attempt to subtract with overflow, or slice index out of range"
    /\ Len(labels) = 1
    /\ labels[1].span.start >= lines[Len(lines)].dedented_span.start
    /\ labels[1].span.start < labels[1].span.end
    /\ labels[1].span.end <= lines[Len(lines)].full_span.end
    /\ lines[Len(lines)].full_span.start > 0
    /\ lines[Len(lines)].indent_size = 0

\* the render has panicked in emit_singleline_labels on a label that
\* starts inside the indentation of the first line
UnderflowInIndentation ==
    /\ call.fn = "write_to"
    /\ pc = "panic"
    /\ panic_msg = "attempt to subtract with overflow, or slice index out of range"
    /\ Len(labels) = 1
    /\ Len(lines) = 1
    /\ labels[1].span.start < lines[1].dedented_span.start
    /\ labels[1].span.end > lines[1].dedented_span.start

---------------------------------------------------------------------------
(* Properties of the slots of the writer and the active set of the sweep *)

\* the ids the sweep has in active_labels right after it has emitted
\* chunk k: started in the chunks 1..k and finished in none of them
ActiveAfter(result, k) ==
    {id \in 0..(StartsUpTo(result, k) - 1) :
        \A p \in FinishingPlaces(result, id) : p[1] > k}

\* the ids of the labels in the slots of the writer
ResidentIds ==
    {writer.slots[i].val.label_id :
        i \in {j \in 1..Len(writer.slots) : writer.slots[j].some}}

\* the chunks the writer has processed in full
Processed == Len(builder.result) - Len(chunks)

\* C36: after the writer has fully processed chunk k, the set of label
\* ids resident in its slots equals the builder's active set right after
\* it emitted chunk k; in particular, after the last chunk every slot is
\* empty: every started multi-line label has been closed.
C36_SlotsFollowActiveSet ==
    /\ (DescriptorBuilt /\ AtLoopHead) =>
          /\ ResidentIds = ActiveAfter(builder.result, Processed)
          /\ Cardinality(ResidentIds) = Occupied(writer.slots)
    /\ (call.fn = "write_to" /\ pc \in {"write_footnotes", "done"}) =>
          /\ chunks = <<>>
          /\ Occupied(writer.slots) = 0

\* the writer has processed a chunk, more chunks follow, and of the labels
\* started so far one has been closed while a label that started before
\* it is still in its slot
C36_Witness ==
    /\ DescriptorBuilt
    /\ AtLoopHead
    /\ chunks # <<>>
    /\ Processed > 0
    /\ \E id \in ResidentIds :
          \E closed \in 0..(StartsUpTo(builder.result, Processed) - 1) :
              closed > id /\ closed \notin ResidentIds

---------------------------------------------------------------------------
(* Properties of the slots of the single-pass writer, under BodySpec *)

\* the multi-line labels of the diagnostic whose line range holds a line
MultilineCovering(line) ==
    {i \in 1..Len(labels) :
        /\ line_range(labels[i]).some
        /\ ~is_singleline(labels[i])
        /\ line_range(labels[i]).val.start <= line
        /\ line < line_range(labels[i]).val.end}

\* the slots of the single-pass writer that hold a label
ResidentSlots ==
    {i \in 1..Len(writer.multiline_slots) :
        is_active(writer.multiline_slots[i])}

\* the single-pass writer is running or has returned
BodyRuns == pc \in {"body:write", "body:loop", "done"}

\* C37: in the single-pass writer, slots_needed is at least the number of
\* multi-line labels that are in slots at any moment of write: no line is
\* in the line ranges of more multi-line labels than there are slots, every
\* label in a slot is one whose line range holds the current line, and
\* allocate_multiline_label never finds all slots taken
C37_SlotsSuffice ==
    /\ panic_msg # "should have enough slots"
    /\ BodyRuns =>
          /\ \A line \in 0..Len(lines) :
                Cardinality(MultilineCovering(line))
                    <= Len(writer.multiline_slots)
          /\ \A i \in ResidentSlots :
                writer.multiline_slots[i].label.message
                    \in MultilineCovering(writer.current_line)
          /\ \A i, j \in ResidentSlots :
                i # j => writer.multiline_slots[i].label.message
                            # writer.multiline_slots[j].label.message

\* a label that starts on the line right after another ends has been
\* written to its end, with one slot for the two labels
C37_Witness ==
    /\ pc = "done"
    /\ Len(labels) = 2
    /\ MultilineCovering(0) = {1}
    /\ line_range(labels[2]).val.start = line_range(labels[1]).val.end
    /\ ~is_singleline(labels[2])
    /\ Len(writer.multiline_slots) = 1
    /\ Cardinality({i \in 1..Len(out) : out[i].kind = "multiline"}) = 2

---------------------------------------------------------------------------
(* Properties of the indentation of the single-pass writer, under BodySpec *)

\* the line the next turn of the loop of write emits lies strictly inside
\* the line range of a multi-line label
FillerLine ==
    /\ pc = "body:loop"
    /\ line_to_emit(writer).some
    /\ \E i \in MultilineCovering(line_to_emit(writer).val) :
          /\ line_range(labels[i]).val.start < line_to_emit(writer).val
          /\ line_to_emit(writer).val + 1 < line_range(labels[i]).val.end

\* C38: in the single-pass writer, line_ident_info.len - self.ident_len
\* does not underflow for any line that is emitted, a filler line strictly
\* inside the line range of a multi-line label included: the line the next
\* turn of the loop emits is indented by ident_len or more
C38_IdentNeverUnderflows ==
    (pc = "body:loop" /\ line_to_emit(writer).some)
        => ident_info(Source_line(line_to_emit(writer).val).val).len
               >= writer.ident_len

\* the subtraction has underflowed on a filler line: a build with overflow
\* checks has panicked in emit_source_line
IdentUnderflowPanics ==
    /\ pc = "panic"
    /\ panic_msg = "attempt to subtract with overflow"
    /\ writer.overflow_checks
    /\ ident_info(Source_line(writer.current_line).val).len < writer.ident_len
    /\ \E i \in MultilineCovering(writer.current_line) :
          /\ line_range(labels[i]).val.start < writer.current_line
          /\ writer.current_line + 1 < line_range(labels[i]).val.end

\* the subtraction has underflowed on a filler line: a build without
\* overflow checks has asked for a padding of about USIZE_MAX blanks
IdentUnderflowWraps ==
    /\ ~writer.overflow_checks
    /\ \E i \in 1..Len(out) :
          out[i].kind = "source" /\ out[i].indent > USIZE_MAX - 4 * MaxBodyLen

---------------------------------------------------------------------------
(* Properties of two render calls that run at once, under PairSpec *)

\* the render call that was first run alone has ended a run beside the
\* other call, and it is the call that runs
FirstEndedRunning ==
    prior.ended /\ other.turn = "second" /\ Ended /\ call.fn = prior.fn

\* the same, and it is the call set aside
FirstEndedAside ==
    /\ prior.ended
    /\ other.turn = "first"
    /\ other.pc \in {"done", "panic", "io_error"}
    /\ other.call.fn = prior.fn

\* the render call ended as it did when it ran alone
SameAsAlone ==
    /\ FirstEndedRunning =>
          /\ pc = prior.pc
          /\ panic_msg = prior.panic_msg
          /\ out = prior.out
          /\ call.fn = "write_to" =>
                builder.result = prior.result /\ writer.slots = prior.slots
    /\ FirstEndedAside =>
          /\ other.pc = prior.pc
          /\ other.panic_msg = prior.panic_msg
          /\ other.out = prior.out
          /\ other.call.fn = "write_to" =>
                /\ other.builder.result = prior.result
                /\ other.writer.slots = prior.slots

\* C26: no step of a render changes the Source or its lines, and a render
\* call that runs beside another render call over the same Source, with
\* their steps interleaved in any way, ends as it ends when it runs alone:
\* the same chunks, slots, output and result.
C26_Isolated ==
    /\ [][src' = src /\ lines' = lines]_vars
    /\ []SameAsAlone

\* two calls of write_to are both in the middle of the body, each with
\* rows written, and the one that was run alone before has started a
\* multi-line label
C26_Witness ==
    /\ prior.ended
    /\ call.fn = "write_to"
    /\ other.call.fn = "write_to"
    /\ pc = "emit_singleline_labels"
    /\ other.pc = "emit_source_line"
    /\ Len(out) >= 2
    /\ Len(other.out) >= 2
    /\ other.turn = "first"
    /\ other.builder.multiline_id = 1

===========================================================================
